---- MODULE Spec2Model ----
(***************************************************************************)
(* Authentication and request-authorization core of the cell-analysis      *)
(* backend: AuthService (register, login, token issuance), the             *)
(* AuthenticationMiddleware (bearer extraction, token validation), the     *)
(* auth handlers, the SecurityHeaders middleware, the Governor rate         *)
(* limiters of register and login, and the route table.                    *)
(*                                                                         *)
(* Cryptography is symbolic: a derived key, a ciphertext, an               *)
(* authentication tag and a password digest are records of their inputs,   *)
(* so that two of them are equal exactly when their inputs are.             *)
(* Instants are whole seconds.                                             *)
(***************************************************************************)
EXTENDS Integers, Sequences, FiniteSets, TLC

VARIABLES
    now,        \* wall clock, chrono::Utc::now(), in seconds
    ticks,      \* number of clock advances so far
    jwt_config, \* JwtConfig loaded once at startup
    users,      \* rows of the users table
    rng,        \* draws made from OsRng (salts and nonces)
    held,       \* the LoginResponse values clients have received
    logins,     \* number of successful logins so far
    workers,    \* number of worker threads, each built by the App factory
    limiter,    \* per limited route and worker: seconds of allowance owed
    logged_out, \* held tokens with which a logout has been admitted
    req,        \* the request in flight, served at the instant now
    resp,       \* the response to it, with what the pipeline did
    folders,    \* rows of the folders table
    images,     \* rows of the images table
    jobs,       \* rows of the jobs table
    queue,      \* messages in the analysis queue
    keys,       \* storage keys generated so far, with the user they were for
    tasks,      \* handlers in flight between two of their awaits
    pager,      \* a client reading a folder page by page
    call        \* the last repository or handler call and what it returned

\* The state of the folder, image and analysis side
dataVars == <<folders, images, jobs, queue, keys, tasks, pager, call>>

\* The state of the authentication side
authVars == <<now, ticks, jwt_config, users, rng, held, logins, workers, limiter,
              logged_out, req, resp>>

vars == <<now, ticks, jwt_config, users, rng, held, logins, workers, limiter, logged_out,
          req, resp, dataVars>>

----------------------------------------------------------------------------
(* Bounds of the model *)

MaxUsers == 2
MaxLogins == 1
MaxTicks == 2
MaxHours == 1
MaxDays == 1
MaxWorkers == 1
MaxGovernorWorkers == 2

MaxFolders == 2
MaxImages == 2
MaxTasks == 1
MaxKeys == 2

(* Program constants *)

HourSecs == 3600
DaySecs == 86400
MinUsernameLen == 3
MaxUsernameLen == 255
MinPasswordLen == 12
LoginPeriod == 12
LoginBurst == 2
RegisterPeriod == 20
RegisterBurst == 1

----------------------------------------------------------------------------
(* Strings.  A string value is a record: ordinary text, the hyphenated     *)
(* text of a UUID, or the RFC 3339 text of an instant.  A JSON member can  *)
(* also be absent or hold a number.                                        *)

Text(s) == [k |-> "text", n |-> 0, s |-> s]
Absent == [k |-> "absent", n |-> 0, s |-> ""]
Number(i) == [k |-> "number", n |-> i, s |-> ""]

IsString(v) == v.k \in {"text", "uuid", "rfc3339"}

\* Uuid::to_string
Uuid_to_string(id) == [k |-> "uuid", n |-> id, s |-> ""]

\* Uuid::parse_str: Ok(id) for the text of a UUID, Err otherwise
Uuid_parse_str(v) ==
    IF v.k = "uuid" THEN [ok |-> TRUE, val |-> v.n] ELSE [ok |-> FALSE, val |-> 0]

\* DateTime::to_rfc3339
to_rfc3339(t) == [k |-> "rfc3339", n |-> t, s |-> ""]

\* DateTime::parse_from_rfc3339
parse_from_rfc3339(v) ==
    IF v.k = "rfc3339" THEN [ok |-> TRUE, val |-> v.n] ELSE [ok |-> FALSE, val |-> 0]

----------------------------------------------------------------------------
(* Key derivation and the PASETO v4.local envelope *)

KeyInfo == "paseto-v4-local-key"

\* Hkdf::<Sha256>::new(None, secret).expand(info): 32 bytes fixed by (secret, info)
derive_key(secret) == [ikm |-> secret, info |-> KeyInfo]

V4Local == "v4.local."

\* the authentication tag over header, nonce and ciphertext
Mac(key, h, n, c) == [k |-> key, h |-> h, n |-> n, c |-> c]

\* PasetoBuilder::build: encrypt the claims under (key, nonce), then tag
PasetoBuilder_build(claims, key, nonce) ==
    LET c == [k |-> key, n |-> nonce, m |-> claims]
    IN  [h |-> V4Local, n |-> nonce, c |-> c, t |-> Mac(key, V4Local, nonce, c)]

NoClaims == [exp |-> Absent, sub |-> Absent, username |-> Absent, token_type |-> Absent]

\* A header value, and so the token text cut from it, is a sequence of atoms:
\* a word of visible ASCII, a run of bytes that is no visible ASCII, or the
\* text of one PASETO token.
Word(w) == [w |-> w, tok |-> {}]
TokenText(token) == [w |-> "", tok |-> {token}]
NonAscii == Word("<0x80>")

\* PasetoParser::parse: the text must be one token with the version tag of
\* v4.local, its tag must verify under the key, and only then is it decrypted
PasetoParser_parse(text, key) ==
    IF Len(text) = 1 /\ text[1].tok # {}
    THEN LET token == CHOOSE t \in text[1].tok : TRUE
         IN  IF /\ token.h = V4Local
                /\ token.t = Mac(key, token.h, token.n, token.c)
             THEN [ok |-> TRUE, val |-> token.c.m]
             ELSE [ok |-> FALSE, val |-> NoClaims]
    ELSE [ok |-> FALSE, val |-> NoClaims]

----------------------------------------------------------------------------
(* domain::ApiResponse and HTTP responses *)

\* ApiResponse::error
ApiResponse_error(code, message) ==
    [success |-> FALSE, data |-> {}, error |-> {[code |-> code, message |-> message]}]

\* ApiResponse::success
ApiResponse_success(data) ==
    [success |-> TRUE, data |-> {data}, error |-> {}]

\* HeaderMap::insert: one value per name
insert_header(headers, name, value) ==
    {h \in headers : h[1] # name} \cup {<<name, value>>}

HasHeader(headers, name) == \E h \in headers : h[1] = name

\* HttpResponseBuilder::json
json(status, headers, body) ==
    [status |-> status,
     headers |-> insert_header(headers, "content-type", "application/json"),
     body |-> body]

----------------------------------------------------------------------------
(* middleware::auth *)

AuthMiddlewareError ==
    {"MissingToken", "InvalidTokenFormat", "InvalidToken", "TokenExpired",
     "InvalidTokenType", "ConfigError"}

status_code(error) ==
    IF error \in {"MissingToken", "InvalidTokenFormat", "InvalidToken",
                  "TokenExpired", "InvalidTokenType"}
    THEN 401
    ELSE 500

error_code(error) ==
    CASE error = "MissingToken" -> "MISSING_TOKEN"
      [] error = "InvalidTokenFormat" -> "INVALID_TOKEN_FORMAT"
      [] error = "InvalidToken" -> "INVALID_TOKEN"
      [] error = "TokenExpired" -> "TOKEN_EXPIRED"
      [] error = "InvalidTokenType" -> "INVALID_TOKEN_TYPE"
      [] OTHER -> "CONFIG_ERROR"

message(error) ==
    CASE error = "MissingToken" -> "Missing authentication token"
      [] error = "InvalidTokenFormat" -> "Invalid token format. Use 'Bearer <token>'"
      [] error = "InvalidToken" -> "Invalid or malformed token"
      [] error = "TokenExpired" -> "Token has expired"
      [] error = "InvalidTokenType" -> "Invalid token type. Access token required"
      [] OTHER -> "Server configuration error"

\* www_authenticate_value giving every failing token the same description
www_authenticate_value_generic(error) ==
    IF error = "MissingToken"
    THEN "Bearer"
    ELSE "Bearer error=\"invalid_token\", error_description=\"Token validation failed\""

www_authenticate_value(error) ==
    CASE error = "MissingToken" -> "Bearer"
      [] error = "TokenExpired" ->
            "Bearer error=\"invalid_token\", error_description=\"The access token expired\""
      [] error = "InvalidTokenFormat" ->
            "Bearer error=\"invalid_token\", error_description=\"Invalid token format\""
      [] error = "InvalidToken" ->
            "Bearer error=\"invalid_token\", error_description=\"Token validation failed\""
      [] error = "InvalidTokenType" ->
            "Bearer error=\"invalid_token\", error_description=\"Access token required\""
      [] OTHER -> "Bearer"

to_response(error) ==
    json(status_code(error),
         IF status_code(error) = 401
         THEN insert_header({}, "www-authenticate", www_authenticate_value(error))
         ELSE {},
         ApiResponse_error(error_code(error), message(error)))

\* HeaderValue::to_str: Err unless every byte is visible ASCII
to_str_ok(value) == \A i \in 1..Len(value) : value[i] # NonAscii

\* str::strip_prefix("Bearer "): the rest of the text when it starts with the
\* word Bearer and one space
HasBearerPrefix(value) ==
    Len(value) >= 2 /\ value[1] = Word("Bearer") /\ value[2] = Word(" ")

\* extract_bearer_token matching the scheme without regard to case
extract_bearer_token_any_case(request) ==
    IF request.authorization = {}
    THEN [ok |-> FALSE, err |-> "MissingToken", val |-> <<>>]
    ELSE LET auth_header == CHOOSE v \in request.authorization : TRUE
             token == SubSeq(auth_header, 3, Len(auth_header))
         IN  IF ~to_str_ok(auth_header)
             THEN [ok |-> FALSE, err |-> "InvalidTokenFormat", val |-> <<>>]
             ELSE IF /\ Len(auth_header) >= 2
                     /\ auth_header[1] \in {Word("Bearer"), Word("bearer")}
                     /\ auth_header[2] = Word(" ")
                  THEN IF token = <<>>
                       THEN [ok |-> FALSE, err |-> "MissingToken", val |-> <<>>]
                       ELSE [ok |-> TRUE, err |-> "", val |-> token]
                  ELSE [ok |-> FALSE, err |-> "InvalidTokenFormat", val |-> <<>>]

\* request.authorization is the set of values of the Authorization header
extract_bearer_token(request) ==
    IF request.authorization = {}
    THEN [ok |-> FALSE, err |-> "MissingToken", val |-> <<>>]
    ELSE LET auth_header == CHOOSE v \in request.authorization : TRUE
         IN  IF ~to_str_ok(auth_header)
             THEN [ok |-> FALSE, err |-> "InvalidTokenFormat", val |-> <<>>]
             ELSE IF HasBearerPrefix(auth_header)
                  THEN LET token == SubSeq(auth_header, 3, Len(auth_header))
                       IN  IF token = <<>>
                           THEN [ok |-> FALSE, err |-> "MissingToken", val |-> <<>>]
                           ELSE [ok |-> TRUE, err |-> "", val |-> token]
                  ELSE [ok |-> FALSE, err |-> "InvalidTokenFormat", val |-> <<>>]

\* serde_json::from_value::<TokenClaims>: every member present and a string
TokenClaims_from_value(value) ==
    /\ IsString(value.sub)
    /\ IsString(value.username)
    /\ IsString(value.token_type)
    /\ IsString(value.exp)

\* validate_token comparing the expiry before it looks at the token type
validate_token_expiry_first(token, config, utc_now) ==
    LET key == derive_key(config.secret)
        parsed == PasetoParser_parse(token, key)
        claims == parsed.val
        expiration == parse_from_rfc3339(claims.exp)
        Err(e) == [ok |-> FALSE, err |-> e, val |-> NoClaims]
    IN  IF ~parsed.ok THEN Err("InvalidToken")
        ELSE IF ~TokenClaims_from_value(claims) THEN Err("InvalidToken")
        ELSE IF ~expiration.ok THEN Err("InvalidToken")
        ELSE IF expiration.val < utc_now THEN Err("TokenExpired")
        ELSE IF claims.token_type # Text("access") THEN Err("InvalidTokenType")
        ELSE [ok |-> TRUE, err |-> "", val |-> claims]

\* validate_token looking at the token type of the payload before the tag
\* has been verified
validate_token_claims_first(token, config, utc_now) ==
    LET key == derive_key(config.secret)
        parsed == PasetoParser_parse(token, key)
        claims == parsed.val
        unverified == IF Len(token) = 1 /\ token[1].tok # {}
                      THEN (CHOOSE t \in token[1].tok : TRUE).c.m
                      ELSE NoClaims
        expiration == parse_from_rfc3339(claims.exp)
        Err(e) == [ok |-> FALSE, err |-> e, val |-> NoClaims]
    IN  IF IsString(unverified.token_type) /\ unverified.token_type # Text("access")
        THEN Err("InvalidTokenType")
        ELSE IF ~parsed.ok THEN Err("InvalidToken")
        ELSE IF ~TokenClaims_from_value(claims) THEN Err("InvalidToken")
        ELSE IF ~expiration.ok THEN Err("InvalidToken")
        ELSE IF expiration.val < utc_now THEN Err("TokenExpired")
        ELSE [ok |-> TRUE, err |-> "", val |-> claims]

validate_token(token, config, utc_now) ==
    LET key == derive_key(config.secret)
        parsed == PasetoParser_parse(token, key)
        claims == parsed.val
        expiration == parse_from_rfc3339(claims.exp)
        Err(e) == [ok |-> FALSE, err |-> e, val |-> NoClaims]
    IN  IF ~parsed.ok THEN Err("InvalidToken")
        ELSE IF ~TokenClaims_from_value(claims) THEN Err("InvalidToken")
        ELSE IF claims.token_type # Text("access") THEN Err("InvalidTokenType")
        ELSE IF ~expiration.ok THEN Err("InvalidToken")
        ELSE IF expiration.val < utc_now THEN Err("TokenExpired")
        ELSE [ok |-> TRUE, err |-> "", val |-> claims]

\* AuthenticatedUser; NoUser stands for the value of a failed validation
NoUser == [user_id |-> 0, username |-> Text("")]

\* validate_request consulting a list of tokens revoked by logout
validate_request_revoking(request, config, utc_now) ==
    LET token == extract_bearer_token(request)
        claims == validate_token(token.val, config, utc_now)
        user_id == Uuid_parse_str(claims.val.sub)
        revoked == Len(token.val) = 1 /\ token.val[1].tok \cap logged_out # {}
    IN  IF ~token.ok THEN [ok |-> FALSE, err |-> token.err, val |-> NoUser]
        ELSE IF ~claims.ok THEN [ok |-> FALSE, err |-> claims.err, val |-> NoUser]
        ELSE IF ~user_id.ok \/ revoked
        THEN [ok |-> FALSE, err |-> "InvalidToken", val |-> NoUser]
        ELSE [ok |-> TRUE, err |-> "",
              val |-> [user_id |-> user_id.val, username |-> claims.val.username]]

validate_request(request, config, utc_now) ==
    LET token == extract_bearer_token(request)
        claims == validate_token(token.val, config, utc_now)
        user_id == Uuid_parse_str(claims.val.sub)
    IN  IF ~token.ok THEN [ok |-> FALSE, err |-> token.err, val |-> NoUser]
        ELSE IF ~claims.ok THEN [ok |-> FALSE, err |-> claims.err, val |-> NoUser]
        ELSE IF ~user_id.ok THEN [ok |-> FALSE, err |-> "InvalidToken", val |-> NoUser]
        ELSE [ok |-> TRUE, err |-> "",
              val |-> [user_id |-> user_id.val, username |-> claims.val.username]]

----------------------------------------------------------------------------
(* services::auth_service *)

\* Argon2 digest of a password under a salt
Argon2(password, salt) == [pw |-> password, salt |-> salt]

\* AuthService::hash_password: the PHC string of a fresh salt and the digest
hash_password(password, salt) ==
    [fmt |-> "$argon2id$", salt |-> salt, digest |-> Argon2(password, salt)]

\* PasswordHash::new: a stored string parses if it has the form of a PHC
\* string, "$<algorithm>$..."
PasswordHash_new(hash) == Len(hash.fmt) > 2 /\ SubSeq(hash.fmt, 1, 1) = "$"

\* AuthService::verify_password taking a string that does not parse for a
\* password that does not match
verify_password_unparsed_is_mismatch(password, hash) ==
    [ok |-> TRUE,
     val |-> /\ PasswordHash_new(hash)
             /\ hash.fmt = "$argon2id$"
             /\ Argon2(password, hash.salt) = hash.digest]

\* AuthService::verify_password: Err for a string that is no PHC string,
\* else whether Argon2 verifies the password against it (is_ok): the
\* algorithm is Argon2's and the digest recomputed under the stored salt is
\* the stored one
verify_password(password, hash) ==
    IF ~PasswordHash_new(hash)
    THEN [ok |-> FALSE, val |-> FALSE]
    ELSE [ok |-> TRUE,
          val |-> /\ hash.fmt = "$argon2id$"
                  /\ Argon2(password, hash.salt) = hash.digest]

NoData == [access_token |-> <<>>, refresh_token |-> <<>>, expires_in |-> 0,
           user |-> [user_id |-> 0, username |-> ""]]

\* generate_tokens deriving its key under another info label than the middleware
generate_tokens_other_label(user, config, utc_now, nonce) ==
    LET key == [ikm |-> config.secret, info |-> "paseto-v4-public-key"]
        user_id_str == Uuid_to_string(user.user_id)
        access_exp_str == to_rfc3339(utc_now + config.expiration_hours * HourSecs)
        refresh_exp_str == to_rfc3339(utc_now + config.refresh_expiration_days * DaySecs)
    IN  <<PasetoBuilder_build(
            [exp |-> access_exp_str, sub |-> user_id_str,
             username |-> Text(user.username), token_type |-> Text("access")],
            key, nonce),
          PasetoBuilder_build(
            [exp |-> refresh_exp_str, sub |-> user_id_str,
             username |-> Absent, token_type |-> Text("refresh")],
            key, nonce + 1)>>

\* AuthService::generate_tokens
generate_tokens(user, config, utc_now, nonce) ==
    LET key == derive_key(config.secret)
        user_id_str == Uuid_to_string(user.user_id)
        access_exp_str == to_rfc3339(utc_now + config.expiration_hours * HourSecs)
        access_token ==
            PasetoBuilder_build(
                [exp |-> access_exp_str, sub |-> user_id_str,
                 username |-> Text(user.username), token_type |-> Text("access")],
                key, nonce)
        refresh_exp_str == to_rfc3339(utc_now + config.refresh_expiration_days * DaySecs)
        refresh_token ==
            PasetoBuilder_build(
                [exp |-> refresh_exp_str, sub |-> user_id_str,
                 username |-> Absent, token_type |-> Text("refresh")],
                key, nonce + 1)
    IN  <<access_token, refresh_token>>

\* UserRepository::find_by_username
find_by_username(table, username) == {u \in table : u.username = username}

\* UserRepository::username_exists
username_exists(table, username) == \E u \in table : u.username = username

\* UserRepository::create: the row inserted, its user_id assigned by the database
create(table, username, password_hash) ==
    [user_id |-> Cardinality(table) + 1, username |-> username,
     password_hash |-> password_hash]

\* AuthService::login telling a missing user apart from a wrong password
AuthService_login_user_not_found(table, config, request, utc_now, nonce, db) ==
    LET found == find_by_username(table, request.username)
        user == CHOOSE u \in found : TRUE
        is_valid == verify_password(request.password, user.password_hash)
        tokens == generate_tokens(user, config, utc_now, nonce)
        Err(e) == [ok |-> FALSE, err |-> e, val |-> NoData]
    IN  IF db # "ok" THEN Err("DatabaseError")
        ELSE IF found = {} THEN Err("UserNotFound")
        ELSE IF ~is_valid.ok THEN Err("HashingError")
        ELSE IF ~is_valid.val THEN Err("InvalidCredentials")
        ELSE [ok |-> TRUE, err |-> "",
              val |-> [access_token |-> <<TokenText(tokens[1])>>,
                       refresh_token |-> <<TokenText(tokens[2])>>,
                       expires_in |-> config.expiration_hours * HourSecs,
                       user |-> [user_id |-> user.user_id, username |-> user.username]]]

\* AuthService::login; db says whether the database answers the query
AuthService_login(table, config, request, utc_now, nonce, db) ==
    LET found == find_by_username(table, request.username)
        user == CHOOSE u \in found : TRUE
        is_valid == verify_password(request.password, user.password_hash)
        tokens == generate_tokens(user, config, utc_now, nonce)
        Err(e) == [ok |-> FALSE, err |-> e, val |-> NoData]
    IN  IF db # "ok" THEN Err("DatabaseError")
        ELSE IF found = {} THEN Err("InvalidCredentials")
        ELSE IF ~is_valid.ok THEN Err("HashingError")
        ELSE IF ~is_valid.val THEN Err("InvalidCredentials")
        ELSE [ok |-> TRUE, err |-> "",
              val |-> [access_token |-> <<TokenText(tokens[1])>>,
                       refresh_token |-> <<TokenText(tokens[2])>>,
                       expires_in |-> config.expiration_hours * HourSecs,
                       user |-> [user_id |-> user.user_id, username |-> user.username]]]

\* AuthService::register writing the row before the hashing task has answered
AuthService_register_write_first(table, request, salt, db) ==
    LET user == create(table, request.username, hash_password(request.password, salt))
    IN  IF db = "exists_fails"
        THEN [ok |-> FALSE, err |-> "DatabaseError", written |-> {}]
        ELSE IF username_exists(table, request.username)
        THEN [ok |-> FALSE, err |-> "UsernameExists", written |-> {}]
        ELSE IF db = "hash_fails"
        THEN [ok |-> FALSE, err |-> "HashingError", written |-> {user}]
        ELSE IF db = "create_fails"
        THEN [ok |-> FALSE, err |-> "DatabaseError", written |-> {}]
        ELSE [ok |-> TRUE, err |-> "", written |-> {user}]

\* AuthService::register writing the row without looking for the username
AuthService_register_unchecked(table, request, salt, db) ==
    LET user == create(table, request.username, hash_password(request.password, salt))
    IN  IF db = "ok"
        THEN [ok |-> TRUE, err |-> "", written |-> {user}]
        ELSE [ok |-> FALSE, err |-> "DatabaseError", written |-> {}]

\* AuthService::register: the result and the row written, if any; db says
\* which step fails, if any: one of the two queries or the hashing task
AuthService_register(table, request, salt, db) ==
    LET user == create(table, request.username, hash_password(request.password, salt))
    IN  IF db = "exists_fails"
        THEN [ok |-> FALSE, err |-> "DatabaseError", written |-> {}]
        ELSE IF username_exists(table, request.username)
        THEN [ok |-> FALSE, err |-> "UsernameExists", written |-> {}]
        ELSE IF db = "hash_fails"
        THEN [ok |-> FALSE, err |-> "HashingError", written |-> {}]
        ELSE IF db = "create_fails"
        THEN [ok |-> FALSE, err |-> "DatabaseError", written |-> {}]
        ELSE [ok |-> TRUE, err |-> "", written |-> {user}]

----------------------------------------------------------------------------
(* dto::auth: request validation *)

UpperChars == {"A", "B", "C", "D", "E", "F", "G", "H", "I", "J", "K", "L", "M",
               "N", "O", "P", "Q", "R", "S", "T", "U", "V", "W", "X", "Y", "Z"}
LowerChars == {"a", "b", "c", "d", "e", "f", "g", "h", "i", "j", "k", "l", "m",
               "n", "o", "p", "q", "r", "s", "t", "u", "v", "w", "x", "y", "z"}
DigitChars == {"0", "1", "2", "3", "4", "5", "6", "7", "8", "9"}

\* password.chars().any(|c| ...) for a class of characters
chars_any(password, class) == \E i \in 1..Len(password) : password[i] \in class

validate_strong_password(password) ==
    LET alphanumeric == UpperChars \cup LowerChars \cup DigitChars
        special == {password[i] : i \in 1..Len(password)} \ alphanumeric
    IN  /\ Len(password) >= MinPasswordLen
        /\ chars_any(password, UpperChars)
        /\ chars_any(password, LowerChars)
        /\ chars_any(password, DigitChars)
        /\ chars_any(password, special)

\* RegisterRequest::validate: the fields that fail
RegisterRequest_validate(request) ==
    {f \in {"username"} :
        Len(request.username) < MinUsernameLen \/ Len(request.username) > MaxUsernameLen}
    \cup {f \in {"password"} : ~validate_strong_password(request.password)}

\* LoginRequest::validate: the fields that fail
LoginRequest_validate(request) ==
    {f \in {"username"} : Len(request.username) < 1}
    \cup {f \in {"password"} : Len(request.password) < 1}

\* format!("Validation failed: {}", errors): one text per set of failing fields
ValidationMessage(errors) ==
    "Validation failed:"
        \o (IF "password" \in errors THEN " password" ELSE "")
        \o (IF "username" \in errors THEN " username" ELSE "")

----------------------------------------------------------------------------
(* handlers::auth_handlers.  A handler's result is the response together   *)
(* with the row the service wrote or the LoginResponse it returned.        *)

handlers_register(table, request, salt, db) ==
    LET errors == RegisterRequest_validate(request)
        r == AuthService_register(table, request, salt, db)
        row == CHOOSE u \in r.written : TRUE
    IN  IF errors # {}
        THEN [res |-> json(400, {}, ApiResponse_error("VALIDATION_ERROR",
                                                       ValidationMessage(errors))),
              written |-> {}]
        ELSE IF r.ok
        THEN [res |-> json(201, {}, ApiResponse_success(
                        [user_id |-> row.user_id, username |-> row.username])),
              written |-> r.written]
        ELSE IF r.err = "UsernameExists"
        THEN [res |-> json(409, {}, ApiResponse_error("USERNAME_EXISTS",
                                                       "Username already exists")),
              written |-> r.written]
        ELSE [res |-> json(500, {}, ApiResponse_error("INTERNAL_ERROR",
                                        "An error occurred during registration")),
              written |-> r.written]

handlers_login(table, config, request, utc_now, nonce, db) ==
    LET errors == LoginRequest_validate(request)
        r == AuthService_login(table, config, request, utc_now, nonce, db)
    IN  IF errors # {}
        THEN [res |-> json(400, {}, ApiResponse_error("VALIDATION_ERROR",
                                                       ValidationMessage(errors))),
              issued |-> {}]
        ELSE IF r.ok
        THEN [res |-> json(200, {}, ApiResponse_success(r.val)),
              issued |-> {r.val}]
        ELSE IF r.err = "InvalidCredentials"
        THEN [res |-> json(401, {}, ApiResponse_error("INVALID_CREDENTIALS",
                                                       "Invalid username or password")),
              issued |-> {}]
        ELSE [res |-> json(500, {}, ApiResponse_error("INTERNAL_ERROR",
                                        "An error occurred during login")),
              issued |-> {}]

handlers_logout ==
    json(200, {}, ApiResponse_success(
        [message |-> "Logged out successfully. Please discard your tokens."]))

----------------------------------------------------------------------------
(* The interceptors *)

\* list_folders and the other handlers behind the authentication middleware
\* start alike: they read the AuthenticatedUser from the request extensions
\* and answer 401 UNAUTHORIZED themselves when there is none.  No folder
\* has been created yet, so the list is empty.
handlers_list_folders(ext) ==
    IF ext = {}
    THEN json(401, {}, ApiResponse_error("UNAUTHORIZED", "Authentication required"))
    ELSE json(200, {}, ApiResponse_success([folders |-> <<>>, total |-> 0]))

\* service.call(req) of the wrapped scope: the handler routed to
service_call(request, ext) ==
    IF request.route = "logout" THEN handlers_logout ELSE handlers_list_folders(ext)

\* AuthenticationMiddlewareService::call handing a request that failed
\* validation on to the handler
AuthenticationMiddlewareService_call_through(request, config, utc_now) ==
    LET v == validate_request(request, config, utc_now)
    IN  IF v.ok
        THEN [res |-> service_call(request, {v.val}), handler |-> request.route,
              ext |-> {v.val}]
        ELSE [res |-> service_call(request, {}), handler |-> request.route, ext |-> {}]

\* AuthenticationMiddlewareService::call: the response, the handler that ran
\* and the request extensions it ran with
AuthenticationMiddlewareService_call(request, config, utc_now) ==
    LET v == validate_request(request, config, utc_now)
    IN  IF v.ok
        THEN [res |-> service_call(request, {v.val}), handler |-> request.route,
              ext |-> {v.val}]
        ELSE [res |-> to_response(v.err), handler |-> "", ext |-> {}]

\* GovernorConfigBuilder::per_second(period).burst_size(burst) of a route
GovernorConfig(route) ==
    IF route = "login"
    THEN [period |-> LoginPeriod, burst |-> LoginBurst]
    ELSE [period |-> RegisterPeriod, burst |-> RegisterBurst]

\* The limiter's decision for the key of the request.  owed is the time
\* until every cell it let through is replenished, one cell per period: a
\* request passes while fewer than burst cells are outstanding.
Governor_check(conf, owed) ==
    IF owed > conf.period * (conf.burst - 1)
    THEN [ok |-> FALSE, owed |-> owed]
    ELSE [ok |-> TRUE, owed |-> owed + conf.period]

\* The limiter's rejection: HttpResponse::TooManyRequests with the wait time
TooManyRequests ==
    [status |-> 429,
     headers |-> {<<"x-ratelimit-after", "<wait time>">>,
                  <<"content-type", "text/plain; charset=utf-8">>},
     body |-> [text |-> "Too many requests, retry in <wait time>s"]]

\* GovernorMiddleware::call around a resource: inner is what the resource
\* answers if called.  A rejection is returned as an Err holding the
\* response, not as a response.
GovernorMiddleware_call(conf, owed, inner) ==
    LET d == Governor_check(conf, owed)
    IN  IF d.ok
        THEN [res |-> inner.res, err |-> FALSE, handler |-> inner.handler,
              ext |-> inner.ext, chain |-> <<"Governor">> \o inner.chain,
              owed |-> d.owed]
        ELSE [res |-> TooManyRequests, err |-> TRUE, handler |-> "",
              ext |-> {}, chain |-> <<"Governor">>, owed |-> d.owed]

SecurityHeaderSet ==
    {<<"strict-transport-security", "max-age=31536000; includeSubDomains">>,
     <<"x-content-type-options", "nosniff">>,
     <<"x-frame-options", "DENY">>,
     <<"x-xss-protection", "0">>,
     <<"referrer-policy", "strict-origin-when-cross-origin">>,
     <<"permissions-policy", "geolocation=(), microphone=(), camera=()">>,
     <<"content-security-policy",
       "default-src 'self'; img-src 'self' data:; script-src 'self' 'unsafe-inline'; style-src 'self' 'unsafe-inline'; frame-ancestors 'none'; base-uri 'none'; form-action 'self'">>,
     <<"cache-control", "no-store, no-cache, must-revalidate, private">>,
     <<"pragma", "no-cache">>}

\* SecurityHeadersService::call: the inner response with the fixed headers set
SecurityHeadersService_call(res) ==
    [res EXCEPT !.headers =
        {h \in @ : \A f \in SecurityHeaderSet : f[1] # h[1]} \cup SecurityHeaderSet]

\* health_check
health_check ==
    [status |-> 200,
     headers |-> {<<"content-type", "application/json">>},
     body |-> [status |-> "healthy", version |-> "<CARGO_PKG_VERSION>"]]

\* The default service of the App: no route matches
default_service ==
    [status |-> 404, headers |-> {}, body |-> [text |-> ""]]

\* The App::wrap calls of main, in the order they are written
AppWraps == <<"Cors", "SecurityHeaders", "Logger">>

\* App::wrap taken to nest the middleware in the order they are written
Outermost_as_written(wraps) == wraps

\* App::wrap: the middleware registered last is the outermost
Outermost(wraps) == [i \in 1..Len(wraps) |-> wraps[Len(wraps) + 1 - i]]

\* One middleware of the App around the result of what it wraps.
\* SecurityHeaders awaits the inner service with `?`: an Err passes through
\* it untouched.  Logger leaves the response as it is, and so does the
\* permissive Cors for a request that carries no Origin header.
Middleware_call(name, inner) ==
    IF name = "SecurityHeaders" /\ ~inner.err
    THEN [inner EXCEPT !.res = SecurityHeadersService_call(@)]
    ELSE inner

\* The middleware of the App, outermost first, around the routed service
RECURSIVE App_call(_, _)
App_call(wraps, inner) ==
    IF wraps = <<>>
    THEN inner
    ELSE [Middleware_call(Head(wraps), App_call(Tail(wraps), inner))
            EXCEPT !.chain = <<Head(wraps)>> \o @]

\* The routes of configure_routes and of main: method, path, the wraps of
\* the scope or resource (outermost first) and the handler
Route(method, path, wraps, handler) ==
    [method |-> method, path |-> path, wraps |-> wraps, handler |-> handler]

\* The scopes registered without their wrap
AuthWrap_absent == <<>>

\* .wrap(AuthenticationMiddleware::new(jwt_config.clone())) of a scope
AuthWrap == <<"AuthenticationMiddleware">>

Routes ==
    {Route("GET", "/api/v1/health", <<>>, "health_check"),
     Route("POST", "/api/v1/auth/register", <<"Governor">>, "register"),
     Route("POST", "/api/v1/auth/login", <<"Governor">>, "login"),
     Route("POST", "/api/v1/auth/logout", AuthWrap, "logout"),
     Route("GET", "/api/v1/folders", AuthWrap, "list_folders"),
     Route("POST", "/api/v1/folders", AuthWrap, "create_folder"),
     Route("PATCH", "/api/v1/folders/{folder_id}", AuthWrap, "rename_folder"),
     Route("DELETE", "/api/v1/folders/{folder_id}", AuthWrap, "delete_folder"),
     Route("GET", "/api/v1/folders/{folder_id}/images", AuthWrap, "list_images"),
     Route("POST", "/api/v1/folders/{folder_id}/images", AuthWrap, "upload_image"),
     Route("POST", "/api/v1/folders/{folder_id}/images/request-upload", AuthWrap,
           "request_upload"),
     Route("POST", "/api/v1/folders/{folder_id}/images/confirm-upload", AuthWrap,
           "confirm_upload"),
     Route("GET", "/api/v1/images/{image_id}", AuthWrap, "get_image"),
     Route("PATCH", "/api/v1/images/{image_id}", AuthWrap, "rename_image"),
     Route("DELETE", "/api/v1/images/{image_id}", AuthWrap, "delete_image"),
     Route("GET", "/api/v1/images/{image_id}/file", AuthWrap, "get_image_file"),
     Route("GET", "/api/v1/images/{image_id}/download-url", AuthWrap,
           "get_image_download_url"),
     Route("POST", "/api/v1/images/{image_id}/analyze", AuthWrap, "analyze_image"),
     Route("GET", "/api/v1/images/{image_id}/analysis-history", AuthWrap,
           "get_analysis_history"),
     Route("GET", "/api/v1/jobs/{job_id}", AuthWrap, "get_job_status"),
     Route("GET", "/api/v1/jobs/{job_id}/result", AuthWrap, "get_job_result"),
     Route("GET", "/api/v2/folders/{folder_id}/images", AuthWrap, "list_images_v2"),
     Route("GET", "/swagger-ui/{_:.*}", <<>>, "SwaggerUi"),
     Route("GET", "/api-docs/openapi.json", <<>>, "SwaggerUi")}

\* The route a handler is registered under
RouteOf(handler) == CHOOSE r \in Routes : r.handler = handler

----------------------------------------------------------------------------
(* What clients send *)

Secrets == {"", "cell-analysis-secret"}

Pw1 == <<"S", "t", "r", "0", "n", "g", "!", "P", "a", "s", "s", "1">>
Pw2 == <<"W", "r", "0", "n", "g", "!", "P", "a", "s", "s", "2", "x">>
PwWeak == <<"w", "e", "a", "k">>
PwEmpty == <<>>

RegisterUsernames == {"alice", "bob", "al"}
RegisterPasswords == {Pw1, PwWeak}
LoginUsernames == {"alice", "bob", "carol", ""}
LoginPasswords == {Pw1, Pw2, PwEmpty}

\* Claims of tokens that this server did not issue, around the instant t
CraftedClaims(t) ==
    LET good == [exp |-> to_rfc3339(t + 1), sub |-> Uuid_to_string(1),
                 username |-> Text("alice"), token_type |-> Text("access")]
    IN  {good,
         [good EXCEPT !.exp = to_rfc3339(t)],
         [good EXCEPT !.exp = to_rfc3339(t - 1)],
         [good EXCEPT !.exp = Text("tomorrow")],
         [good EXCEPT !.exp = Absent],
         [good EXCEPT !.token_type = Text("refresh")],
         [good EXCEPT !.token_type = Text("refresh"), !.exp = Text("tomorrow")],
         [good EXCEPT !.token_type = Text("Access")],
         [good EXCEPT !.token_type = Absent],
         [good EXCEPT !.sub = Text("alice")],
         [good EXCEPT !.username = Absent],
         [good EXCEPT !.username = Number(7)]}

\* Tokens built outside this server: under the key of the configured secret
\* with any of the crafted claims, and under the keys of the other secrets
Minted(t) ==
    {PasetoBuilder_build(c, derive_key(jwt_config.secret), 0) : c \in CraftedClaims(t)}
    \cup {PasetoBuilder_build(c, derive_key(s), 0) :
            c \in {[exp |-> to_rfc3339(t + 1), sub |-> Uuid_to_string(1),
                    username |-> Text("alice"), token_type |-> tt] :
                        tt \in {Text("access"), Text("refresh")}},
            s \in Secrets \ {jwt_config.secret}}

\* An issued token with one part changed: the version tag, the nonce, the
\* tag, or the ciphertext (which then decrypts to other claims)
Tampered(token) ==
    {[token EXCEPT !.h = "v4.public."],
     [token EXCEPT !.n = @ + 1],
     [token EXCEPT !.t.n = @ + 1],
     [token EXCEPT !.c.m.token_type = Text("access"), !.c.m.username = Text("alice")],
     [token EXCEPT !.c.m.exp = to_rfc3339(@.n + DaySecs)]}
    \ {token}

\* The tokens clients hold
HeldTokens ==
    UNION {lr.access_token[1].tok \cup lr.refresh_token[1].tok : lr \in held}

PresentedTokens(t) ==
    LET mine == HeldTokens
    IN  mine \cup UNION {Tampered(k) : k \in mine} \cup Minted(t)

\* Values of the Authorization header
AuthorizationValues(t) ==
    {<<Word("Bearer"), Word(" "), TokenText(k)>> : k \in PresentedTokens(t)}
    \cup UNION {{<<TokenText(k)>>,
                 <<Word("bearer"), Word(" "), TokenText(k)>>,
                 <<Word("Basic"), Word(" "), TokenText(k)>>,
                 <<Word("Bearer"), TokenText(k)>>,
                 <<Word("Bearer"), Word(" "), Word(" "), TokenText(k)>>,
                 <<Word("Bearer"), Word(" "), TokenText(k), NonAscii>>}
                : k \in {PasetoBuilder_build(
                            [exp |-> to_rfc3339(t + 1), sub |-> Uuid_to_string(1),
                             username |-> Text("alice"), token_type |-> Text("access")],
                            derive_key(jwt_config.secret), 0)}}
    \cup {<<>>, <<Word("Bearer")>>, <<Word("Bearer"), Word(" ")>>,
          <<Word("Bearer"), Word(" "), Word("abc")>>, <<NonAscii>>}

----------------------------------------------------------------------------
(* The system *)

LimitedRoutes == {"register", "login"}

NoRequest == [route |-> "", authorization |-> {}, username |-> "",
              password |-> <<>>, db |-> "ok", worker |-> 0]
NoResponse == [status |-> 0, headers |-> {}, body |-> [success |-> FALSE, data |-> {},
               error |-> {}], handler |-> "", ext |-> {}, chain |-> <<>>]

\* What the routed service answers: a response or an Err holding one, the
\* handler that ran, the extensions it ran with and the interceptors entered
Routed(res, handler, ext, chain) ==
    [res |-> res, err |-> FALSE, handler |-> handler, ext |-> ext, chain |-> chain]

\* The response as it leaves the server, with what ran behind it.  An Err
\* that reaches the dispatcher is rendered as the response it holds.
Served(inner) ==
    LET out == App_call(Outermost(AppWraps), inner)
    IN  [status |-> out.res.status, headers |-> out.res.headers, body |-> out.res.body,
         handler |-> out.handler, ext |-> out.ext, chain |-> out.chain]

\* The service of a route registered in a scope, behind the wrap of the
\* scope if it has one
Scope_call(request, config, utc_now) ==
    LET wraps == RouteOf(request.route).wraps
    IN  IF \E i \in 1..Len(wraps) : wraps[i] = "AuthenticationMiddleware"
        THEN LET r == AuthenticationMiddlewareService_call(request, config, utc_now)
             IN  Routed(r.res, r.handler, r.ext,
                        IF r.handler = "" THEN wraps ELSE wraps \o <<r.handler>>)
        ELSE Routed(service_call(request, {}), request.route, {},
                    wraps \o <<request.route>>)

\* The state after startup with at most n worker threads: the App factory
\* runs once in each worker, and configure_routes builds the limiters there
Started(n, tables) ==
    /\ now = 0
    /\ ticks = 0
    /\ \E s \in Secrets, h \in 1..MaxHours, d \in 1..MaxDays :
          jwt_config = [secret |-> s, expiration_hours |-> h,
                        refresh_expiration_days |-> d]
    /\ users \in tables
    /\ rng = 1
    /\ held = {}
    /\ logins = 0
    /\ \E k \in 1..n :
          /\ workers = k
          /\ limiter = [route \in LimitedRoutes |-> [w \in 1..k |-> 0]]
    /\ logged_out = {}
    /\ req = NoRequest
    /\ resp = NoResponse

\* No client is reading pages
NoPager == [folder_id |-> 0, limit |-> {}, cursor |-> {}, seen |-> <<>>, pages |-> 0,
            has_next |-> TRUE]

\* No call has been made
NoCall == [op |-> "", user_id |-> 0, id |-> 0, val |-> {}]

\* Empty tables, an empty queue and no handler in flight
EmptyStore ==
    /\ folders = {}
    /\ images = {}
    /\ jobs = {}
    /\ queue = {}
    /\ keys = {}
    /\ tasks = {}
    /\ pager = NoPager
    /\ call = NoCall

\* The state after startup on an empty database
Start(n) == Started(n, {{}}) /\ EmptyStore

Init == Start(MaxWorkers)

\* The clock advances between requests: a request is served at one instant.
\* What the limiters are owed shrinks with the time that passes.
Advance(deltas) ==
    /\ req = NoRequest
    /\ ticks < MaxTicks
    /\ \E d \in deltas :
          /\ now' = now + d
          /\ limiter' = [route \in LimitedRoutes |->
                            [w \in 1..workers |->
                                IF limiter[route][w] > d THEN limiter[route][w] - d ELSE 0]]
    /\ ticks' = ticks + 1
    /\ UNCHANGED <<dataVars, jwt_config, users, rng, held, logins, workers, logged_out, req, resp>>

Tick == Advance({1, HourSecs - 1})

\* POST /api/v1/auth/register, on the worker that accepted the connection
Register ==
    \E username \in RegisterUsernames, password \in RegisterPasswords,
       db \in {"ok", "exists_fails", "hash_fails", "create_fails"}, w \in 1..workers :
        LET request == [route |-> "register", authorization |-> {},
                        username |-> username, password |-> password, db |-> db,
                        worker |-> w]
            r == handlers_register(users, request, rng, db)
            g == GovernorMiddleware_call(GovernorConfig("register"),
                                         limiter["register"][w],
                                         Routed(r.res, "register", {}, <<"register">>))
            written == IF g.err THEN {} ELSE r.written
        IN  /\ req = NoRequest
            /\ Cardinality(users \cup written) <= MaxUsers
            /\ req' = request
            /\ resp' = Served(g)
            /\ limiter' = [limiter EXCEPT !["register"][w] = g.owed]
            /\ users' = users \cup written
            /\ rng' = IF written # {} THEN rng + 1 ELSE rng
            /\ UNCHANGED <<dataVars, now, ticks, jwt_config, held, logins, workers, logged_out>>

\* POST /api/v1/auth/login, on the worker that accepted the connection
Login ==
    \E username \in LoginUsernames, password \in LoginPasswords,
       db \in {"ok", "fails"}, w \in 1..workers :
        LET request == [route |-> "login", authorization |-> {},
                        username |-> username, password |-> password, db |-> db,
                        worker |-> w]
            r == handlers_login(users, jwt_config, request, now, rng, db)
            g == GovernorMiddleware_call(GovernorConfig("login"),
                                         limiter["login"][w],
                                         Routed(r.res, "login", {}, <<"login">>))
            issued == IF g.err THEN {} ELSE r.issued
        IN  /\ req = NoRequest
            /\ issued # {} => logins < MaxLogins
            /\ req' = request
            /\ resp' = Served(g)
            /\ limiter' = [limiter EXCEPT !["login"][w] = g.owed]
            /\ held' = held \cup issued
            /\ logins' = IF issued # {} THEN logins + 1 ELSE logins
            /\ rng' = IF issued # {} THEN rng + 2 ELSE rng
            /\ UNCHANGED <<dataVars, now, ticks, jwt_config, users, workers, logged_out>>

\* A request to a route behind the authentication middleware
Authenticated(route, authorization) ==
    LET request == [route |-> route, authorization |-> authorization,
                    username |-> "", password |-> <<>>, db |-> "ok", worker |-> 1]
        r == Scope_call(request, jwt_config, now)
        presented == UNION {v[3].tok : v \in {x \in authorization : Len(x) = 3}}
    IN  /\ req = NoRequest
        /\ req' = request
        /\ resp' = Served(r)
        /\ logged_out' = IF r.handler = "logout"
                          THEN logged_out \cup (presented \cap HeldTokens)
                          ELSE logged_out
        /\ UNCHANGED <<dataVars, now, ticks, jwt_config, users, rng, held, logins, workers,
                       limiter>>

\* POST /api/v1/auth/logout
Logout ==
    \E authorization \in {{}} \cup {{v} : v \in AuthorizationValues(now)} :
        Authenticated("logout", authorization)

\* GET /api/v1/folders
ListFolders ==
    \E authorization \in {{}} \cup {{<<Word("Bearer"), Word(" "), TokenText(k)>>} :
                                        k \in HeldTokens} :
        Authenticated("list_folders", authorization)

\* GET /api/v1/health, and a request that matches no route
Open ==
    \E route \in {"health_check", "unmatched"} :
        /\ req = NoRequest
        /\ req' = [NoRequest EXCEPT !.route = route, !.worker = 1]
        /\ resp' = Served(IF route = "health_check"
                          THEN Routed(health_check, route, {}, <<route>>)
                          ELSE Routed(default_service, "", {}, <<>>))
        /\ UNCHANGED <<dataVars, now, ticks, jwt_config, users, rng, held, logins, workers,
                       limiter, logged_out>>

\* The response has left and the request ends: its extensions are dropped
Complete ==
    /\ req # NoRequest
    /\ req' = NoRequest
    /\ resp' = NoResponse
    /\ UNCHANGED <<dataVars, now, ticks, jwt_config, users, rng, held, logins, workers,
                   limiter, logged_out>>

Next == Tick \/ Register \/ Login \/ Logout \/ ListFolders \/ Open \/ Complete

Spec == Init /\ [][Next]_vars

\* Login attempts of one client against a server with several workers, the
\* clock advancing by seconds and by the replenishment period
GovernorInit == Start(MaxGovernorWorkers)

Wait == Advance({1, LoginPeriod})

GovernorNext == Wait \/ Login \/ Complete

GovernorSpec == GovernorInit /\ [][GovernorNext]_vars

\* Rows of the users table as a database can hold them: a password hash
\* written by register, the PHC string of another algorithm, and a string
\* that is no PHC string (as the fixtures of the repository insert)
StoredUsers ==
    {[user_id |-> 1, username |-> "alice", password_hash |-> hash_password(Pw1, 1)],
     [user_id |-> 2, username |-> "bob",
      password_hash |-> [fmt |-> "test_hash", salt |-> 0, digest |-> Argon2(<<>>, 0)]],
     [user_id |-> 3, username |-> "carol",
      password_hash |-> [fmt |-> "$pbkdf2-sha256$", salt |-> 2,
                         digest |-> Argon2(Pw1, 2)]]}

\* Login attempts against a users table that holds any of these rows
CredentialInit == Started(MaxWorkers, SUBSET StoredUsers) /\ EmptyStore

CredentialNext == Wait \/ Login \/ Complete

CredentialSpec == CredentialInit /\ [][CredentialNext]_vars

----------------------------------------------------------------------------
(* Vocabulary of the properties *)

ConfiguredKey == derive_key(jwt_config.secret)

\* The request in flight is for a route behind the authentication middleware
Protected == req.route \in {"logout", "list_folders"}

\* The downstream handler was invoked
Admitted == resp.handler # "" /\ resp.handler = req.route

\* The machine code of an error response, "" for a success
Code ==
    IF "error" \notin DOMAIN resp.body \/ resp.body.error = {}
    THEN ""
    ELSE (CHOOSE e \in resp.body.error : TRUE).code

\* The tokens t such that the Authorization header is exactly "Bearer <t>"
BearerTokens ==
    {t \in UNION {v[3].tok : v \in {w \in req.authorization : Len(w) = 3}} :
        req.authorization = {<<Word("Bearer"), Word(" "), TokenText(t)>>}}

\* The token is what PasetoBuilder produces under the configured key: its
\* tag verifies and it decrypts
Authentic(t) == t = PasetoBuilder_build(t.c.m, ConfiguredKey, t.n)

Claims(t) == t.c.m

\* The decrypted payload has the shape of TokenClaims with a UUID subject
WellFormed(m) ==
    /\ m.sub.k = "uuid"
    /\ IsString(m.username)
    /\ IsString(m.token_type)
    /\ IsString(m.exp)

\* The token's exp is an instant and now has not reached it
NotExpired(m) == m.exp.k = "rfc3339" /\ now < m.exp.n

\* The token was returned by a successful login
IssuedAs(t, kind) ==
    \E lr \in held :
        t \in (IF kind = "access" THEN lr.access_token ELSE lr.refresh_token)[1].tok

----------------------------------------------------------------------------
(* C1: on a protected route the handler is invoked if and only if the      *)
(* bearer token decrypts under the configured key into claims, has         *)
(* token_type access and has not reached its exp instant.                  *)
C1_SoleAdmissionCriterion ==
    Protected =>
        (Admitted <=>
            \E t \in BearerTokens :
                /\ Authentic(t)
                /\ WellFormed(Claims(t))
                /\ Claims(t).token_type = Text("access")
                /\ NotExpired(Claims(t)))

(* C2: when request validation fails, the handler is not invoked, no       *)
(* AuthenticatedUser is attached, and the response is a 401 with a         *)
(* WWW-Authenticate header and a {success:false, error:{code,message}}     *)
(* body.                                                                   *)
C2_FailureShortCircuits ==
    (Protected /\ ~validate_request(req, jwt_config, now).ok) =>
        /\ ~Admitted
        /\ resp.handler = ""
        /\ resp.ext = {}
        /\ resp.status = 401
        /\ HasHeader(resp.headers, "www-authenticate")
        /\ resp.body.success = FALSE
        /\ resp.body.data = {}
        /\ Cardinality(resp.body.error) = 1
        /\ Code \in {"MISSING_TOKEN", "INVALID_TOKEN_FORMAT", "INVALID_TOKEN",
                     "TOKEN_EXPIRED", "INVALID_TOKEN_TYPE"}

\* an expired access token of a login has been refused
C2_Witness ==
    /\ Protected
    /\ \E t \in BearerTokens : IssuedAs(t, "access") /\ Claims(t).exp.n < now
    /\ resp.status = 401
    /\ ~Admitted

(* C3: the refresh token of a successful login, presented before its       *)
(* expiry on a protected route, is rejected with 401 INVALID_TOKEN_TYPE.   *)
C3_RefreshTokenTypeGated ==
    (Protected /\ \E t \in BearerTokens :
                    IssuedAs(t, "refresh") /\ NotExpired(Claims(t))) =>
        (resp.status = 401 /\ Code = "INVALID_TOKEN_TYPE")

(* C4: an authentic access token (one issued by login) whose exp equals    *)
(* the current instant is rejected, and one whose exp is one second later  *)
(* is admitted.                                                            *)
C4_ExpiryBoundary ==
    Protected =>
        \A t \in BearerTokens :
            IssuedAs(t, "access") =>
                /\ Claims(t).exp.n = now => ~Admitted
                /\ Claims(t).exp.n = now + 1 => Admitted

IsText(v) == \A i \in 1..Len(v) : v[i].w # "<0x80>"
IsBearer(v) == Len(v) >= 2 /\ v[1].w = "Bearer" /\ v[2].w = " "

(* C6: no Authorization header gives MissingToken; "Bearer " with an empty *)
(* token gives MissingToken; a header that is not text or does not start   *)
(* with "Bearer " gives InvalidTokenFormat; otherwise the text after       *)
(* "Bearer " goes unchanged to token verification, which decides.          *)
C6_BearerExtraction ==
    Protected =>
        /\ req.authorization = {} => (resp.status = 401 /\ Code = "MISSING_TOKEN")
        /\ \A v \in req.authorization :
            /\ (~IsText(v) \/ ~IsBearer(v)) =>
                    (resp.status = 401 /\ Code = "INVALID_TOKEN_FORMAT")
            /\ (IsText(v) /\ IsBearer(v) /\ Len(v) = 2) =>
                    (resp.status = 401 /\ Code = "MISSING_TOKEN")
            /\ (IsText(v) /\ IsBearer(v) /\ Len(v) > 2) =>
                    LET r == validate_token(SubSeq(v, 3, Len(v)), jwt_config, now)
                    IN  IF r.ok
                        THEN Admitted \/ Code = "INVALID_TOKEN"
                        ELSE resp.status = 401 /\ Code = error_code(r.err)

\* "Bearer " followed by nothing has been answered with MISSING_TOKEN
C6_Witness ==
    /\ Protected
    /\ req.authorization = {<<Word("Bearer"), Word(" ")>>}
    /\ Code = "MISSING_TOKEN"

(* C7: a token text that is not an authentic token (tampered, forged,      *)
(* under another key, garbled) is always rejected with INVALID_TOKEN,      *)
(* whatever claims it carries.                                             *)
C7_AuthenticityFirst ==
    Protected =>
        \A v \in req.authorization :
            (/\ IsText(v) /\ IsBearer(v) /\ Len(v) > 2
             /\ ~(Len(v) = 3 /\ \E t \in v[3].tok : Authentic(t))) =>
                /\ resp.status = 401
                /\ Code = "INVALID_TOKEN"
                /\ ~Admitted

\* a refresh token whose ciphertext was changed to carry token_type access
\* has been refused
C7_Witness ==
    /\ Protected
    /\ \E t \in BearerTokens, k \in HeldTokens :
          /\ t \in Tampered(k)
          /\ Claims(k).token_type = Text("refresh")
          /\ Claims(t).token_type = Text("access")
    /\ Code = "INVALID_TOKEN"

(* C8: the access token login issued for user U, presented before its exp, *)
(* is admitted with AuthenticatedUser (U.user_id, U.username); it is       *)
(* encrypted under the key derived from the configured secret, and a       *)
(* middleware configured with another secret rejects it with InvalidToken. *)
C8_RoundTrip ==
    /\ \A lr \in held :
          /\ \E u \in users : u.user_id = lr.user.user_id /\ u.username = lr.user.username
          /\ \A t \in lr.access_token[1].tok : t.t.k = derive_key(jwt_config.secret)
    /\ Protected =>
          \A lr \in held : \A t \in BearerTokens \cap lr.access_token[1].tok :
              /\ now < Claims(t).exp.n =>
                    /\ Admitted
                    /\ resp.status = 200
                    /\ resp.ext = {[user_id |-> lr.user.user_id,
                                    username |-> Text(lr.user.username)]}
              /\ \A s \in Secrets \ {jwt_config.secret} :
                    LET other == validate_request(req, [jwt_config EXCEPT !.secret = s], now)
                    IN  ~other.ok /\ other.err = "InvalidToken"

\* an access token of a login has been presented before its exp and admitted
C8_Witness ==
    /\ Protected
    /\ \E t \in BearerTokens : IssuedAs(t, "access") /\ now < Claims(t).exp.n
    /\ Admitted

\* The login request names no user, or names one with another password
NoSuchUser == \A u \in users : u.username # req.username
WrongPassword ==
    \E u \in users : u.username = req.username /\ u.password_hash.digest.pw # req.password

C10_Every401Challenges ==
    resp.status = 401 => HasHeader(resp.headers, "www-authenticate")

----------------------------------------------------------------------------
\* A step that serves a registration, and one whose request is valid while
\* the database and the hashing task work
RegisterStep == req = NoRequest /\ req'.route = "register"
SoundRegisterStep ==
    RegisterStep /\ RegisterRequest_validate(req') = {} /\ req'.db = "ok"

\* What registration does with a sound request once its handler runs
Registration ==
    IF username_exists(users, req'.username)
    THEN /\ resp'.status = 409
         /\ Code' = "USERNAME_EXISTS"
         /\ users' = users
    ELSE /\ resp'.status = 201
         /\ \E u \in users' \ users :
                /\ users' = users \cup {u}
                /\ u.username = req'.username
                /\ u.password_hash = hash_password(req'.password, u.password_hash.salt)
                /\ verify_password(req'.password, u.password_hash)
                        = [ok |-> TRUE, val |-> TRUE]
                /\ resp'.body = ApiResponse_success(
                                    [user_id |-> u.user_id, username |-> u.username])

(* C11: registration with a username that is in the user store gives 409   *)
(* USERNAME_EXISTS and leaves the store unchanged; registration with a new *)
(* username stores exactly one row with the hashed password and gives 201  *)
(* with its user_id and username; so registering a name twice in a row     *)
(* gives 201 then 409.                                                     *)
C11_RegisterThenConflict == [][SoundRegisterStep => Registration]_vars

(* C11 with the rate limiter: the above holds for a registration that the  *)
(* limiter of its worker lets through; one that arrives while that limiter *)
(* is still owed time (within 20 seconds of the last one it let through)   *)
(* gets 429, runs no handler and leaves the store unchanged.               *)
C11_RegisterThenConflictUnlessLimited ==
    [][SoundRegisterStep =>
        IF Governor_check(GovernorConfig("register"),
                          limiter["register"][req'.worker]).ok
        THEN Registration
        ELSE resp'.status = 429 /\ resp'.handler = "" /\ users' = users]_vars

\* a second registration of a stored username has been answered with 409
C11_Witness ==
    /\ req.route = "register"
    /\ resp.status = 409
    /\ \E u \in users : u.username = req.username

(* C12: a login writes nothing to the user store on any path; a            *)
(* registration writes exactly one row when it succeeds and nothing when   *)
(* it fails (validation, existing username, hashing, database, limiter).   *)
C12_StoreWrites ==
    [][/\ (req = NoRequest /\ req'.route = "login") => users' = users
       /\ RegisterStep =>
            IF resp'.status = 201
            THEN users \subseteq users' /\ Cardinality(users' \ users) = 1
            ELSE users' = users]_vars

\* a registration whose hashing task failed has been answered, and the
\* store holds no row for its username
C12_Witness ==
    /\ req.route = "register"
    /\ req.db = "hash_fails"
    /\ resp.status = 500
    /\ \A u \in users : u.username # req.username

(* C13: the two tokens of a login response carry the same claims except    *)
(* for token_type (access, refresh) and exp (issue time plus               *)
(* expiration_hours, issue time plus refresh_expiration_days, the later).  *)
C13_TokenPair ==
    \A lr \in held :
        \A a \in lr.access_token[1].tok, r \in lr.refresh_token[1].tok :
            /\ Claims(a).token_type = Text("access")
            /\ Claims(r).token_type = Text("refresh")
            /\ Claims(a).sub = Claims(r).sub
            /\ Claims(a).username = Claims(r).username
            /\ Claims(r).exp.n - Claims(a).exp.n =
                    jwt_config.refresh_expiration_days * DaySecs
                        - jwt_config.expiration_hours * HourSecs
            /\ Claims(a).exp.n < Claims(r).exp.n

\* The request that presents token t as its bearer token
BearerRequest(t) ==
    [NoRequest EXCEPT !.route = "logout",
                      !.authorization = {<<Word("Bearer"), Word(" "), TokenText(t)>>},
                      !.worker = 1]

(* C14: a token with which a logout was admitted is admitted again at any  *)
(* later instant before its exp, whatever happened in between; a logout    *)
(* changes no server state.                                                *)
C14_StatelessAdmission ==
    /\ [](\A t \in logged_out :
            now < Claims(t).exp.n =>
                /\ validate_request(BearerRequest(t), jwt_config, now).ok
                /\ (Protected /\ t \in BearerTokens) => Admitted)
    /\ [][(req = NoRequest /\ req'.route = "logout") =>
            UNCHANGED <<users, held, jwt_config, limiter, rng, logins, workers>>]_vars

\* a token used for a logout has afterwards been admitted on another route
C14_Witness ==
    /\ req.route = "list_folders"
    /\ Admitted
    /\ BearerTokens \cap logged_out # {}

(* C15: every response that leaves the server carries the full fixed set   *)
(* of security headers with their fixed values, whichever route it is for  *)
(* and whoever produced it: a handler, the authentication middleware, the  *)
(* rate limiter or the default service of an unmatched route.              *)
C15_SecurityHeadersOnEveryResponse ==
    req # NoRequest => SecurityHeaderSet \subseteq resp.headers

\* The interceptors and the handler of the request in flight, in the order
\* they were entered, without the wraps of the App
RouteChain == SubSeq(resp.chain, Len(AppWraps) + 1, Len(resp.chain))

\* No handler ran before the interceptors configured for its route: what was
\* entered below the App is the wraps of the route and then the handler, or
\* the wraps alone when one of them answered
RouteWrapsFirst ==
    /\ \A r \in Routes : Len(r.wraps) <= 1
    /\ IF resp.handler # ""
       THEN /\ resp.handler = req.route
            /\ RouteChain = RouteOf(resp.handler).wraps \o <<resp.handler>>
       ELSE RouteChain = IF req.route = "unmatched" THEN <<>>
                         ELSE RouteOf(req.route).wraps

(* C16 as stated: for each request the security-headers middleware is the  *)
(* outermost wrapper (nothing is entered before it), then come the rate    *)
(* limiter and the authentication middleware of the route, then the        *)
(* handler, which never runs before the interceptors of its route.         *)
C16_InterceptorOrder ==
    req # NoRequest =>
        /\ resp.chain # <<>>
        /\ resp.chain[1] = "SecurityHeaders"
        /\ RouteWrapsFirst

(* C16 amended: for each request the request logger is the outermost       *)
(* wrapper, then the security-headers middleware, then CORS, then the wrap *)
(* of the route (the rate limiter on register and login, the               *)
(* authentication middleware on the protected scopes, never both), then    *)
(* the handler, which never runs before the interceptors of its route.     *)
C16_InterceptorOrderLoggerOutermost ==
    req # NoRequest =>
        /\ Len(resp.chain) >= 3
        /\ SubSeq(resp.chain, 1, 3) = <<"Logger", "SecurityHeaders", "Cors">>
        /\ RouteWrapsFirst

\* a protected handler has run behind all five layers
C16_Witness ==
    /\ req.route = "list_folders"
    /\ resp.chain = <<"Logger", "SecurityHeaders", "Cors", "AuthenticationMiddleware",
                      "list_folders">>

\* The allowance of the client's limiter key on POST /auth/login is
\* exhausted: a limiter of the route has no cell left for it
LoginAllowanceExhausted ==
    \E w \in 1..workers :
        ~Governor_check(GovernorConfig("login"), limiter["login"][w]).ok

\* A login attempt arrives
LoginStep == req = NoRequest /\ req'.route = "login"

(* C17: on POST /auth/login a limiter that is owed nothing lets a burst of *)
(* 2 through and replenishes one request every 12 seconds (5 per minute);  *)
(* once the allowance of the key is exhausted, a further attempt before it *)
(* is replenished is answered 429 without the login handler running: no    *)
(* user lookup, no password verification, no token issued.                 *)
C17_LoginLimiter ==
    [][LoginStep =>
        IF LoginAllowanceExhausted
        THEN /\ resp'.status = 429
             /\ resp'.handler = ""
             /\ held' = held
        ELSE /\ resp'.status # 429
             /\ resp'.handler = "login"]_vars

\* The routes that need no token
PublicHandlers == {"health_check", "register", "login"}

\* The wraps hold the authentication middleware
BehindAuthentication(wraps) ==
    \E i \in 1..Len(wraps) : wraps[i] = "AuthenticationMiddleware"

(* C18: health, register and login are registered outside the              *)
(* authentication middleware and are answered without it; every other      *)
(* route of /api/v1 and /api/v2 is registered behind it, its handler runs  *)
(* only with an AuthenticatedUser in the request extensions, and no        *)
(* response is the handlers' own 401 UNAUTHORIZED fallback.                *)
C18_RouteCoverage ==
    /\ \A r \in Routes :
          IF r.handler \in PublicHandlers \cup {"SwaggerUi"}
          THEN ~BehindAuthentication(r.wraps)
          ELSE BehindAuthentication(r.wraps)
    /\ req # NoRequest =>
          /\ Code # "UNAUTHORIZED"
          /\ IF req.route \in PublicHandlers
             THEN /\ ~BehindAuthentication(resp.chain)
                  /\ req.authorization = {}
                  /\ resp.handler = "" => resp.status = 429
             ELSE resp.handler # "" =>
                    /\ BehindAuthentication(resp.chain)
                    /\ \E user \in resp.ext : user = validate_request(req, jwt_config, now).val

\* a handler of a protected route has run with the user of the token
C18_Witness ==
    /\ req.route = "list_folders"
    /\ resp.handler = "list_folders"
    /\ resp.status = 200
    /\ resp.ext # {}

\* The five token failure kinds
TokenFailures ==
    {"MissingToken", "InvalidTokenFormat", "InvalidToken", "TokenExpired",
     "InvalidTokenType"}

\* The challenge of RFC 6750 for a token that was presented and refused, up
\* to the description
InvalidTokenChallenge == "Bearer error=\"invalid_token\", error_description=\""

\* value is the invalid_token challenge with a quoted description
IsInvalidTokenChallenge(value) ==
    /\ Len(value) > Len(InvalidTokenChallenge) + 1
    /\ SubSeq(value, 1, Len(InvalidTokenChallenge)) = InvalidTokenChallenge
    /\ SubSeq(value, Len(value), Len(value)) = "\""

\* The description of an invalid_token challenge
Description(value) == SubSeq(value, Len(InvalidTokenChallenge) + 1, Len(value) - 1)

(* C19: each of the five token failure kinds maps to status 401, to its    *)
(* own machine code among MISSING_TOKEN, INVALID_TOKEN_FORMAT,             *)
(* INVALID_TOKEN, TOKEN_EXPIRED, INVALID_TOKEN_TYPE, and to a              *)
(* WWW-Authenticate value that is the bare "Bearer" for MissingToken and   *)
(* the invalid_token challenge with its own description for each of the    *)
(* other four; every refusal of the authentication middleware is the       *)
(* response of one of the five kinds.                                      *)
C19_FailureMapping ==
    /\ \A e \in TokenFailures : status_code(e) = 401
    /\ {error_code(e) : e \in TokenFailures} =
          {"MISSING_TOKEN", "INVALID_TOKEN_FORMAT", "INVALID_TOKEN", "TOKEN_EXPIRED",
           "INVALID_TOKEN_TYPE"}
    /\ \A e \in TokenFailures :
          error_code(e) = CASE e = "MissingToken" -> "MISSING_TOKEN"
                            [] e = "InvalidTokenFormat" -> "INVALID_TOKEN_FORMAT"
                            [] e = "InvalidToken" -> "INVALID_TOKEN"
                            [] e = "TokenExpired" -> "TOKEN_EXPIRED"
                            [] e = "InvalidTokenType" -> "INVALID_TOKEN_TYPE"
    /\ www_authenticate_value("MissingToken") = "Bearer"
    /\ \A e \in TokenFailures \ {"MissingToken"} :
          IsInvalidTokenChallenge(www_authenticate_value(e))
    /\ \A e1, e2 \in TokenFailures \ {"MissingToken"} :
          e1 # e2 => Description(www_authenticate_value(e1)) #
                        Description(www_authenticate_value(e2))
    /\ (Protected /\ ~Admitted) =>
          \E e \in TokenFailures :
              /\ resp.status = status_code(e)
              /\ Code = error_code(e)
              /\ {h \in resp.headers : h[1] = "www-authenticate"} =
                    {<<"www-authenticate", www_authenticate_value(e)>>}

\* an expired token has been refused with the challenge of its kind
C19_Witness ==
    /\ Protected
    /\ Code = "TOKEN_EXPIRED"
    /\ resp.status = 401
    /\ \E h \in resp.headers :
          /\ h[1] = "www-authenticate"
          /\ IsInvalidTokenChallenge(h[2])
          /\ Description(h[2]) = "The access token expired"

\* The login request in flight reached AuthService::login and the database
\* answered with the row of the user
LoginFound ==
    /\ req.route = "login"
    /\ resp.handler = "login"
    /\ req.db = "ok"
    /\ LoginRequest_validate(req) = {}
    /\ find_by_username(users, req.username) # {}

\* The stored credential of the user of the login request in flight
StoredCredential ==
    (CHOOSE u \in find_by_username(users, req.username) : TRUE).password_hash

(* C20: for a stored credential that parses and that the password does not *)
(* match, verify_password returns false and the login is answered 401      *)
(* INVALID_CREDENTIALS; for a stored credential that does not parse,       *)
(* verify_password is an error and the login is answered with the generic  *)
(* 500 INTERNAL_ERROR, never with INVALID_CREDENTIALS, and it is answered. *)
C20_WrongPasswordOrHashingFailure ==
    LoginFound =>
        LET is_valid == verify_password(req.password, StoredCredential)
        IN  IF PasswordHash_new(StoredCredential)
            THEN /\ is_valid.ok
                 /\ ~is_valid.val =>
                        /\ resp.status = 401
                        /\ Code = "INVALID_CREDENTIALS"
                 /\ is_valid.val => resp.status = 200
            ELSE /\ ~is_valid.ok
                 /\ resp.status = 500
                 /\ Code = "INTERNAL_ERROR"
                 /\ \A e \in resp.body.error :
                        e.message = "An error occurred during login"
                 /\ resp.body.data = {}

\* a login against a stored credential that does not parse has been answered
C20_Witness ==
    /\ LoginFound
    /\ ~PasswordHash_new(StoredCredential)
    /\ resp.status = 500

----------------------------------------------------------------------------
(* Folders and images.  A nullable column holds a set: {} for NULL, {v}    *)
(* for the value v.  A query that returns rows returns the set of them.    *)

\* The next value of a serial primary key
NextId(table, column) ==
    IF table = {} THEN 1
    ELSE 1 + CHOOSE m \in {column[r] : r \in table} :
                 \A r \in table : column[r] <= m

\* FolderRepository::create: the row inserted
FolderRepository_create(table, user_id, folder_name, t) ==
    [folder_id |-> NextId(table, [r \in table |-> r.folder_id]),
     user_id |-> user_id, folder_name |-> folder_name,
     created_at |-> {t}, deleted_at |-> {}]

\* FolderRepository::find_by_user_id leaving out the owner in the WHERE clause
FolderRepository_find_by_user_id_any_owner(table, rows, user_id) ==
    {[folder |-> f,
      image_count |-> Cardinality({i \in rows : i.folder_id = f.folder_id})] :
        f \in {x \in table : x.deleted_at = {}}}

\* FolderRepository::find_by_user_id: the live folders of the user, each
\* with the number of image rows joined to it
FolderRepository_find_by_user_id(table, rows, user_id) ==
    {[folder |-> f,
      image_count |-> Cardinality({i \in rows : i.folder_id = f.folder_id})] :
        f \in {x \in table : x.user_id = user_id /\ x.deleted_at = {}}}

\* FolderRepository::find_by_id
FolderRepository_find_by_id(table, folder_id, user_id) ==
    {f \in table : f.folder_id = folder_id /\ f.user_id = user_id /\ f.deleted_at = {}}

\* FolderRepository::update_name without the owner in the WHERE clause
FolderRepository_update_name_any_owner(table, folder_id, user_id, new_name) ==
    LET hit == {f \in table : f.folder_id = folder_id /\ f.deleted_at = {}}
        set == {[f EXCEPT !.folder_name = new_name] : f \in hit}
    IN  [folders |-> (table \ hit) \cup set, val |-> set]

\* FolderRepository::update_name: the table after it and the row returned
FolderRepository_update_name(table, folder_id, user_id, new_name) ==
    LET hit == FolderRepository_find_by_id(table, folder_id, user_id)
        set == {[f EXCEPT !.folder_name = new_name] : f \in hit}
    IN  [folders |-> (table \ hit) \cup set, val |-> set]

\* FolderRepository::delete leaving the images of the folder as they are
FolderRepository_delete_folder_only(table, rows, folder_id, user_id, t) ==
    LET hit == FolderRepository_find_by_id(table, folder_id, user_id)
    IN  IF hit = {}
        THEN [folders |-> table, images |-> rows, val |-> {}]
        ELSE [folders |-> (table \ hit) \cup {[f EXCEPT !.deleted_at = {t}] : f \in hit},
              images |-> rows, val |-> {0}]

\* FolderRepository::delete, one transaction: the tables after it and the
\* number of image rows it marked ({} for None)
FolderRepository_delete(table, rows, folder_id, user_id, t) ==
    LET hit == FolderRepository_find_by_id(table, folder_id, user_id)
        marked == {i \in rows : i.folder_id = folder_id /\ i.deleted_at = {}}
    IN  IF hit = {}
        THEN [folders |-> table, images |-> rows, val |-> {}]
        ELSE [folders |-> (table \ hit) \cup {[f EXCEPT !.deleted_at = {t}] : f \in hit},
              images |-> (rows \ marked) \cup {[i EXCEPT !.deleted_at = {t}] : i \in marked},
              val |-> {Cardinality(marked)}]

\* FolderRepository::restore, one transaction: the tables after it and the
\* folder returned
FolderRepository_restore(table, rows, folder_id, user_id) ==
    LET hit == {f \in table : f.folder_id = folder_id /\ f.user_id = user_id
                                /\ f.deleted_at # {}}
        set == {[f EXCEPT !.deleted_at = {}] : f \in hit}
        marked == {i \in rows : i.folder_id = folder_id /\ i.deleted_at # {}}
    IN  IF hit = {}
        THEN [folders |-> table, images |-> rows, val |-> {}]
        ELSE [folders |-> (table \ hit) \cup set,
              images |-> (rows \ marked) \cup {[i EXCEPT !.deleted_at = {}] : i \in marked},
              val |-> set]

\* ImageRepository::create: the row inserted
ImageRepository_create(rows, folder_id, file_path, t) ==
    [image_id |-> NextId(rows, [r \in rows |-> r.image_id]), folder_id |-> folder_id,
     file_path |-> file_path, uploaded_at |-> {t}, deleted_at |-> {}]

\* ImageRepository::find_by_id: the live image joined to a folder of the user
ImageRepository_find_by_id(table, rows, image_id, user_id) ==
    {i \in rows : /\ i.image_id = image_id
                  /\ i.deleted_at = {}
                  /\ \E f \in table : f.folder_id = i.folder_id /\ f.user_id = user_id}

\* ImageRepository::soft_delete: the table after it and Some(()) or None
ImageRepository_soft_delete(table, rows, image_id, user_id, t) ==
    LET hit == ImageRepository_find_by_id(table, rows, image_id, user_id)
    IN  [images |-> (rows \ hit) \cup {[i EXCEPT !.deleted_at = {t}] : i \in hit},
         val |-> IF hit = {} THEN {} ELSE {TRUE}]

\* S3StorageService::generate_object_key: "images/<a fresh uuid>.<ext>"
generate_object_key(issued) ==
    [prefix |-> "images/", uuid |-> Cardinality(issued) + 1]

\* The users that send requests, by the user_id of their token
UserIds == {1, 2}
FolderNames == {"a", "b"}
FolderIds == 1..(MaxFolders + 1)
ImageIds == 1..(MaxImages + 1)

\* The upload tokens a client may present: every key generated so far and a
\* string that is no storage key
UploadTokens == {k.key : k \in keys} \cup {[prefix |-> "tmp/", uuid |-> 0]}

\* A call and what it returned
Call(op, user_id, id, val) == [op |-> op, user_id |-> user_id, id |-> id, val |-> val]

\* create_folder
CreateFolder ==
    \E u \in UserIds, name \in FolderNames :
        LET row == FolderRepository_create(folders, u, name, now)
        IN  /\ Cardinality(folders) < MaxFolders
            /\ folders' = folders \cup {row}
            /\ call' = Call("create", u, row.folder_id, {row})
            /\ UNCHANGED <<authVars, images, jobs, queue, keys, tasks, pager>>

\* list_folders: FolderRepository::find_by_user_id
FindFolders ==
    \E u \in UserIds :
        /\ call' = Call("find_by_user_id", u, 0,
                        FolderRepository_find_by_user_id(folders, images, u))
        /\ UNCHANGED <<authVars, folders, images, jobs, queue, keys, tasks, pager>>

\* rename_folder: FolderRepository::update_name
RenameFolder ==
    \E u \in UserIds, id \in FolderIds, name \in FolderNames :
        LET r == FolderRepository_update_name(folders, id, u, name)
        IN  /\ folders' = r.folders
            /\ call' = Call("update_name", u, id, r.val)
            /\ UNCHANGED <<authVars, images, jobs, queue, keys, tasks, pager>>

\* delete_folder: FolderRepository::delete
DeleteFolder ==
    \E u \in UserIds, id \in FolderIds :
        LET r == FolderRepository_delete(folders, images, id, u, now)
        IN  /\ folders' = r.folders
            /\ images' = r.images
            /\ call' = Call("delete", u, id, r.val)
            /\ UNCHANGED <<authVars, jobs, queue, keys, tasks, pager>>

\* FolderRepository::restore
RestoreFolder ==
    \E u \in UserIds, id \in FolderIds :
        LET r == FolderRepository_restore(folders, images, id, u)
        IN  /\ folders' = r.folders
            /\ images' = r.images
            /\ call' = Call("restore", u, id, r.val)
            /\ UNCHANGED <<authVars, jobs, queue, keys, tasks, pager>>

\* delete_image: ImageRepository::soft_delete
DeleteImage ==
    \E u \in UserIds, id \in ImageIds :
        LET r == ImageRepository_soft_delete(folders, images, id, u, now)
        IN  /\ images' = r.images
            /\ call' = Call("soft_delete", u, id, r.val)
            /\ UNCHANGED <<authVars, folders, jobs, queue, keys, tasks, pager>>

\* A handler between its folder check and its insert
Task(op, user_id, folder_id, file_path) ==
    [op |-> op, user_id |-> user_id, folder_id |-> folder_id, file_path |-> file_path]

\* upload_image up to its insert: the folder is checked, the file is read,
\* a key is generated and the file is stored under it
UploadImageBegin ==
    \E u \in UserIds, id \in FolderIds :
        LET key == generate_object_key(keys)
        IN  IF FolderRepository_find_by_id(folders, id, u) = {}
            THEN /\ call' = Call("upload_image", u, id, {"NOT_FOUND"})
                 /\ UNCHANGED <<authVars, folders, images, jobs, queue, keys, tasks, pager>>
            ELSE /\ Cardinality(tasks) < MaxTasks
                 /\ Cardinality(keys) < MaxKeys
                 /\ Cardinality(images) + Cardinality(tasks) < MaxImages
                 /\ keys' = keys \cup {[key |-> key, user_id |-> u]}
                 /\ tasks' = tasks \cup {Task("upload_image", u, id, key)}
                 /\ call' = Call("upload_image", u, id, {})
                 /\ UNCHANGED <<authVars, folders, images, jobs, queue, pager>>

\* request_upload: the folder is checked, a key is generated and returned
\* as the upload token with a presigned URL for it
RequestUpload ==
    \E u \in UserIds, id \in FolderIds :
        LET key == generate_object_key(keys)
        IN  IF FolderRepository_find_by_id(folders, id, u) = {}
            THEN /\ call' = Call("request_upload", u, id, {"NOT_FOUND"})
                 /\ UNCHANGED <<authVars, folders, images, jobs, queue, keys, tasks, pager>>
            ELSE /\ Cardinality(keys) < MaxKeys
                 /\ keys' = keys \cup {[key |-> key, user_id |-> u]}
                 /\ call' = Call("request_upload", u, id, {key})
                 /\ UNCHANGED <<authVars, folders, images, jobs, queue, tasks, pager>>

\* confirm_upload up to its insert: the folder is checked and the upload
\* token must start with "images/"
ConfirmUploadBegin ==
    \E u \in UserIds, id \in FolderIds, upload_token \in UploadTokens :
        IF FolderRepository_find_by_id(folders, id, u) = {}
        THEN /\ call' = Call("confirm_upload", u, id, {"NOT_FOUND"})
             /\ UNCHANGED <<authVars, folders, images, jobs, queue, keys, tasks, pager>>
        ELSE IF upload_token.prefix # "images/"
        THEN /\ call' = Call("confirm_upload", u, id, {"VALIDATION_ERROR"})
             /\ UNCHANGED <<authVars, folders, images, jobs, queue, keys, tasks, pager>>
        ELSE /\ Cardinality(tasks) < MaxTasks
             /\ Cardinality(images) + Cardinality(tasks) < MaxImages
             /\ tasks' = tasks \cup {Task("confirm_upload", u, id, upload_token)}
             /\ call' = Call("confirm_upload", u, id, {})
             /\ UNCHANGED <<authVars, folders, images, jobs, queue, keys, pager>>

\* The insert of upload_image and of confirm_upload: ImageRepository::create
InsertImage ==
    \E task \in tasks :
        LET row == ImageRepository_create(images, task.folder_id, task.file_path, now)
        IN  /\ images' = images \cup {row}
            /\ tasks' = tasks \ {task}
            /\ call' = Call(task.op, task.user_id, row.image_id, {row})
            /\ UNCHANGED <<authVars, folders, jobs, queue, keys, pager>>

\* get_image_file and get_image_download_url: the storage key whose object
\* is served to the user
GetImageFile ==
    \E u \in UserIds, id \in ImageIds :
        /\ call' = Call("get_image_file", u, id,
                        {i.file_path : i \in ImageRepository_find_by_id(folders, images, id, u)})
        /\ UNCHANGED <<authVars, folders, images, jobs, queue, keys, tasks, pager>>

\* The server started with a configured secret on an empty database
StoreInit == Start(MaxWorkers) /\ jwt_config.secret # ""

FolderNext ==
    \/ CreateFolder \/ FindFolders \/ RenameFolder \/ DeleteFolder \/ RestoreFolder
    \/ UploadImageBegin \/ InsertImage \/ DeleteImage

\* Folder requests of two users in any order, with uploads and deletions of
\* images
FolderSpec == StoreInit /\ [][FolderNext]_vars

UploadNext ==
    \/ CreateFolder \/ DeleteFolder
    \/ UploadImageBegin \/ RequestUpload \/ ConfirmUploadBegin \/ InsertImage
    \/ GetImageFile

\* Uploads of two users interleaved with folder deletions
UploadSpec == StoreInit /\ [][UploadNext]_vars

----------------------------------------------------------------------------
(* Properties of folders, images and jobs *)

(* C21: whatever folders have been created, renamed, deleted and restored  *)
(* by whichever users, find_by_user_id(u) returns exactly the folders      *)
(* whose owner is u and that are not soft-deleted, never a folder of        *)
(* another user; the owner of a folder is the user who created it and      *)
(* never changes.                                                          *)
C21_FolderIsolation ==
    /\ [](call.op = "find_by_user_id" =>
            /\ {r.folder : r \in call.val} =
                  {f \in folders : f.user_id = call.user_id /\ f.deleted_at = {}}
            /\ \A r \in call.val : r.folder.user_id = call.user_id)
    /\ [][/\ \A f \in folders :
                \E g \in folders' : g.folder_id = f.folder_id /\ g.user_id = f.user_id
          /\ call'.op = "create" =>
                \A f \in folders' \ folders : f.user_id = call'.user_id]_vars

\* a user has listed a folder while another user has a live folder too
C21_Witness ==
    /\ call.op = "find_by_user_id"
    /\ call.val # {}
    /\ \E f \in folders : f.user_id # call.user_id /\ f.deleted_at = {}

\* The user owns the live folder of that id
OwnsLiveFolder(user_id, folder_id) ==
    \E f \in folders :
        f.folder_id = folder_id /\ f.user_id = user_id /\ f.deleted_at = {}

(* C22: update_name and delete called by a user who is not the owner of    *)
(* the folder, or with a folder id that does not exist or is already       *)
(* soft-deleted, return None and leave every folder and every image as it  *)
(* was.                                                                    *)
C22_NotOwnerNoEffect ==
    [][(call'.op \in {"update_name", "delete"}
            /\ ~OwnsLiveFolder(call'.user_id, call'.id)) =>
        (call'.val = {} /\ folders' = folders /\ images' = images)]_vars

\* another user's delete of a live folder that holds a live image returned None
C22_Witness ==
    /\ call.op = "delete"
    /\ call.val = {}
    /\ \E f \in folders :
          /\ f.folder_id = call.id
          /\ f.user_id # call.user_id
          /\ f.deleted_at = {}
          /\ \E i \in images : i.folder_id = f.folder_id /\ i.deleted_at = {}

(* C23: delete by the owner of a live folder marks, in one step, the       *)
(* folder and every image of it that was not yet deleted as soft-deleted   *)
(* and changes nothing else, returns the number of images it marked (0     *)
(* for an empty folder); afterwards the folder is not in find_by_user_id   *)
(* and a second delete of it returns None.                                 *)
C23_DeleteFolder ==
    [][(call'.op = "delete" /\ OwnsLiveFolder(call'.user_id, call'.id)) =>
        LET id == call'.id
            live == {i \in images : i.folder_id = id /\ i.deleted_at = {}}
        IN  /\ call'.val = {Cardinality(live)}
            /\ \A f \in folders' : f.folder_id = id => f.deleted_at # {}
            /\ \A i \in images' : i.folder_id = id => i.deleted_at # {}
            /\ {f \in folders' : f.folder_id # id} = {f \in folders : f.folder_id # id}
            /\ images' \ images = {[i EXCEPT !.deleted_at = {now}] : i \in live}
            /\ images \ images' = live
            /\ \A r \in FolderRepository_find_by_user_id(folders', images', call'.user_id) :
                  r.folder.folder_id # id
            /\ FolderRepository_delete(folders', images', id, call'.user_id, now).val = {}
      ]_vars

\* the owner has deleted a folder that held a live image
C23_Witness ==
    /\ call.op = "delete"
    /\ \E n \in call.val : n >= 1

(* C27: for any state of a live folder, delete followed by restore by the  *)
(* owner returns the folder and all of its images to the state they had    *)
(* before the delete: an image that was soft-deleted on its own before is  *)
(* still soft-deleted after the restore.                                   *)
C27_RestoreUndoesDelete ==
    \A f \in folders :
        f.deleted_at = {} =>
            LET d == FolderRepository_delete(folders, images, f.folder_id, f.user_id, now)
                r == FolderRepository_restore(d.folders, d.images, f.folder_id, f.user_id)
            IN  /\ r.val = {f}
                /\ r.folders = folders
                /\ r.images = images

(* C25: in every reachable state, every image that is not soft-deleted     *)
(* belongs to a folder that is not soft-deleted, however upload_image and  *)
(* confirm_upload (folder check, then insert) interleave with              *)
(* delete_folder on the same folder.                                       *)
C25_LiveImageInLiveFolder ==
    \A i \in images :
        i.deleted_at = {} =>
            \E f \in folders : f.folder_id = i.folder_id /\ f.deleted_at = {}

(* C26: the storage objects a user obtains through get_image_file or       *)
(* get_image_download_url are only those whose key was generated for an    *)
(* upload of that user: no image record under a folder of a user points at *)
(* a key that was issued to or uploaded by another user.                   *)
C26_OwnKeysOnly ==
    /\ call.op = "get_image_file" =>
          \A key \in call.val : [key |-> key, user_id |-> call.user_id] \in keys
    /\ \A i \in images, f \in folders :
          f.folder_id = i.folder_id =>
              [key |-> i.file_path, user_id |-> f.user_id] \in keys

----------------------------------------------------------------------------
(* Concurrent registrations.  AuthService::register awaits the uniqueness  *)
(* query, then the hashing task, then the insert; requests served          *)
(* concurrently interleave at these awaits.  The table definition is not   *)
(* part of the server's sources: whether the database enforces unique      *)
(* usernames is a choice over both possibilities.                          *)

MaxRegisters == 3

RaceUsernames == {"alice", "bob"}

\* AuthService::register up to its first error: the uniqueness check
register_check(table, username) ==
    IF username_exists(table, username) THEN {"UsernameExists"} ELSE {}

\* UserRepository::create as the database answers it: with a unique
\* constraint, an insert of a username that is present is a database error
UserRepository_create(table, username, password_hash, unique) ==
    IF unique /\ username_exists(table, username)
    THEN [err |-> {"DatabaseError"}, written |-> {}]
    ELSE [err |-> {}, written |-> {create(table, username, password_hash)}]

\* handlers::register: the status of the response for the service's result
register_status(err) ==
    IF err = {} THEN 201
    ELSE IF err = {"UsernameExists"} THEN 409
    ELSE IF err = {"ValidationError"} THEN 400
    ELSE 500

RegisterTask(id, username, pc, status) ==
    [id |-> id, username |-> username, pc |-> pc, status |-> status]

\* a register request up to the answer of the uniqueness query
RegisterBegin ==
    \E id \in 1..MaxRegisters, username \in RaceUsernames :
        LET err == register_check(users, username)
        IN  /\ \A t \in tasks : t.id # id
            /\ tasks' = tasks \cup
                  {IF err = {}
                   THEN RegisterTask(id, username, "create", 0)
                   ELSE RegisterTask(id, username, "done", register_status(err))}
            /\ UNCHANGED <<now, ticks, jwt_config, users, rng, held, logins, workers,
                           limiter, logged_out, req, resp,
                           folders, images, jobs, queue, keys, pager, call>>

\* the rest of a register request: the password is hashed and the row inserted
RegisterCreate ==
    \E task \in tasks, unique \in BOOLEAN :
        LET r == UserRepository_create(users, task.username,
                                       hash_password(Pw1, rng), unique)
        IN  /\ task.pc = "create"
            /\ users' = users \cup r.written
            /\ rng' = rng + 1
            /\ tasks' = (tasks \ {task}) \cup
                  {RegisterTask(task.id, task.username, "done", register_status(r.err))}
            /\ UNCHANGED <<now, ticks, jwt_config, held, logins, workers,
                           limiter, logged_out, req, resp,
                           folders, images, jobs, queue, keys, pager, call>>

RegisterRaceNext == RegisterBegin \/ RegisterCreate

RegisterRaceSpec == StoreInit /\ [][RegisterRaceNext]_vars

(* C24: under any interleaving of concurrent register requests for the     *)
(* same new username, exactly one request succeeds with 201 and every      *)
(* other request fails with 409 UsernameExists; no request ends with       *)
(* another error kind and the user store never holds two users with the    *)
(* same username.                                                          *)
C24_OneRegistrationWins ==
    /\ \A u1, u2 \in users : u1.username = u2.username => u1 = u2
    /\ \A t \in tasks : t.pc = "done" => t.status \in {201, 409}
    /\ \A username \in RaceUsernames :
          LET requests == {t \in tasks : t.username = username}
          IN  (requests # {} /\ \A t \in requests : t.pc = "done") =>
                  Cardinality({t \in requests : t.status = 201}) = 1

----------------------------------------------------------------------------
(* Analysis jobs: repositories::job_repository, the publish of             *)
(* services::rabbitmq_service and handlers::analysis_handlers.  queue is   *)
(* the set of messages the broker has accepted.                            *)

MaxJobs == 2

JobIds == 1..(MaxJobs + 1)

\* JobRepository::create: the row inserted, in status pending
JobRepository_create(rows, image_id) ==
    [job_id |-> NextId(rows, [r \in rows |-> r.job_id]), image_id |-> image_id,
     status |-> "pending", started_at |-> {}, finished_at |-> {},
     error_message |-> {}]

\* JobRepository::find_by_id: the job joined to its image in a folder of the user
JobRepository_find_by_id(table, rows, jobrows, job_id, user_id) ==
    {j \in jobrows :
        /\ j.job_id = job_id
        /\ \E i \in rows, f \in table :
              i.image_id = j.image_id /\ f.folder_id = i.folder_id /\ f.user_id = user_id}

\* JobRepository::start_processing
JobRepository_start_processing(jobrows, job_id, t) ==
    {IF j.job_id = job_id
     THEN [j EXCEPT !.status = "processing", !.started_at = {t}]
     ELSE j : j \in jobrows}

\* JobRepository::complete
JobRepository_complete(jobrows, job_id, t) ==
    {IF j.job_id = job_id
     THEN [j EXCEPT !.status = "completed", !.finished_at = {t}]
     ELSE j : j \in jobrows}

\* JobRepository::fail
JobRepository_fail(jobrows, job_id, error_message, t) ==
    {IF j.job_id = job_id
     THEN [j EXCEPT !.status = "failed", !.finished_at = {t},
                    !.error_message = {error_message}]
     ELSE j : j \in jobrows}

\* What the broker does with a publish: it accepts the message and confirms,
\* there is no channel, the publish fails, or the message is accepted and
\* the confirmation is lost
PublishOutcomes == {"ok", "NotConnected", "Publish", "Confirm"}

\* RabbitmqService::publish_analysis_job: the result and the queue after it
publish_analysis_job(messages, payload, outcome) ==
    [ok |-> outcome = "ok",
     queue |-> IF outcome \in {"ok", "Confirm"} THEN messages \cup {payload}
               ELSE messages]

\* analyze_image: the response, the job created if any, and the tables and
\* queue after it; db says whether the database answers the update of
\* JobRepository::fail
analyze_image(table, rows, jobrows, messages, user_id, image_id, outcome, db, t) ==
    LET found == ImageRepository_find_by_id(table, rows, image_id, user_id)
        image == CHOOSE i \in found : TRUE
        job == JobRepository_create(jobrows, image_id)
        payload == [job_id |-> job.job_id, image_id |-> job.image_id,
                    s3_key |-> image.file_path]
        sent == publish_analysis_job(messages, payload, outcome)
        created == jobrows \cup {job}
    IN  IF found = {}
        THEN [status |-> 404, code |-> "NOT_FOUND", job |-> {}, published |-> FALSE,
              jobs |-> jobrows, queue |-> messages]
        ELSE IF ~sent.ok
        THEN [status |-> 500, code |-> "QUEUE_ERROR", job |-> {job.job_id},
              published |-> FALSE,
              jobs |-> IF db = "ok"
                       THEN JobRepository_fail(created, job.job_id,
                                               "Failed to queue analysis job", t)
                       ELSE created,
              queue |-> sent.queue]
        ELSE [status |-> 202, code |-> "", job |-> {job.job_id}, published |-> TRUE,
              jobs |-> created, queue |-> sent.queue]

\* get_job_status: the status reported and the result_url, if any
get_job_status(table, rows, jobrows, job_id, user_id) ==
    {[status |-> j.status,
      result_url |-> IF j.status = "completed" THEN {j.job_id} ELSE {}] :
        j \in JobRepository_find_by_id(table, rows, jobrows, job_id, user_id)}

AnalyzeImage ==
    \E u \in UserIds, id \in ImageIds, outcome \in PublishOutcomes,
       db \in {"ok", "fail_fails"} :
        LET r == analyze_image(folders, images, jobs, queue, u, id, outcome, db, now)
        IN  /\ Cardinality(r.jobs) <= MaxJobs
            /\ jobs' = r.jobs
            /\ queue' = r.queue
            /\ call' = Call("analyze_image", u, id,
                            {[status |-> r.status, job |-> r.job,
                              published |-> r.published]})
            /\ UNCHANGED <<authVars, folders, images, keys, tasks, pager>>

StartProcessing ==
    \E id \in JobIds :
        /\ jobs' = JobRepository_start_processing(jobs, id, now)
        /\ call' = Call("start_processing", 0, id, {})
        /\ UNCHANGED <<authVars, folders, images, queue, keys, tasks, pager>>

CompleteJob ==
    \E id \in JobIds :
        /\ jobs' = JobRepository_complete(jobs, id, now)
        /\ call' = Call("complete", 0, id, {})
        /\ UNCHANGED <<authVars, folders, images, queue, keys, tasks, pager>>

FailJob ==
    \E id \in JobIds :
        /\ jobs' = JobRepository_fail(jobs, id, "Analysis failed", now)
        /\ call' = Call("fail", 0, id, {})
        /\ UNCHANGED <<authVars, folders, images, queue, keys, tasks, pager>>

GetJobStatus ==
    \E u \in UserIds, id \in JobIds :
        /\ call' = Call("get_job_status", u, id,
                        get_job_status(folders, images, jobs, id, u))
        /\ UNCHANGED <<authVars, folders, images, jobs, queue, keys, tasks, pager>>

\* A user has a folder with one uploaded image
JobInit ==
    LET key == generate_object_key({})
        folder == FolderRepository_create({}, 1, "a", 0)
        image == ImageRepository_create({}, folder.folder_id, key, 0)
    IN  /\ Started(MaxWorkers, {{}})
        /\ jwt_config.secret # ""
        /\ folders = {folder}
        /\ images = {image}
        /\ keys = {[key |-> key, user_id |-> 1]}
        /\ jobs = {}
        /\ queue = {}
        /\ tasks = {}
        /\ pager = NoPager
        /\ call = NoCall

JobNext == AnalyzeImage \/ StartProcessing \/ CompleteJob \/ FailJob \/ GetJobStatus

JobSpec == JobInit /\ [][JobNext]_vars

(* C28: every job created by analyze_image is either published to the      *)
(* analysis queue or ends in status failed: a 202 response is returned     *)
(* only after the publish succeeded, and whenever the publish fails the    *)
(* job is in status failed with an error message when the request          *)
(* completes, so no job stays pending without a message in the queue.      *)
C28_PublishedOrFailed ==
    /\ call.op = "analyze_image" =>
          \A r \in call.val : \A id \in r.job :
              /\ r.status = 202 =>
                    r.published /\ \E m \in queue : m.job_id = id
              /\ ~r.published =>
                    \E j \in jobs : /\ j.job_id = id
                                    /\ j.status = "failed"
                                    /\ j.error_message # {}
    /\ \A j \in jobs :
          j.status = "pending" => \E m \in queue : m.job_id = j.job_id

\* The moves of a job's status that go forward
ForwardMoves ==
    {<<"pending", "processing">>, <<"pending", "failed">>,
     <<"processing", "completed">>, <<"processing", "failed">>}

(* C29: job status only moves forward: after any sequence of               *)
(* JobRepository::create, start_processing, complete and fail calls, a     *)
(* job's status follows pending -> processing -> (completed | failed) or   *)
(* pending -> failed, and a job that has reached completed or failed never *)
(* changes status again, so a result_url once reported by get_job_status   *)
(* never disappears.                                                       *)
C29_StatusMovesForward ==
    [][\A j \in jobs, k \in jobs' :
          j.job_id = k.job_id =>
              \/ k.status = j.status
              \/ <<j.status, k.status>> \in ForwardMoves]_vars

----------------------------------------------------------------------------
(* Cursor pagination: dto::image::CursorPaginationQuery,                   *)
(* ImageRepository::find_by_folder_id_cursor and list_images_v2.  A client *)
(* reads one folder page by page, passing each next_cursor back.           *)

MaxPageImages == 3
MaxStamp == 1

DefaultPageLimit == 20
MinPageLimit == 1
MaxPageLimit == 100

\* CursorPaginationQuery::limit: the limit asked for, 20 if there is none,
\* clamped to 1..100
limit(query_limit) ==
    LET n == IF query_limit = {} THEN DefaultPageLimit
             ELSE CHOOSE x \in query_limit : TRUE
    IN  IF n < MinPageLimit THEN MinPageLimit
        ELSE IF n > MaxPageLimit THEN MaxPageLimit
        ELSE n

\* CursorPaginationQuery::cursor_datetime: None if absent or unparsable
cursor_datetime(cursor) ==
    {parse_from_rfc3339(c).val : c \in {x \in cursor : parse_from_rfc3339(x).ok}}

\* ORDER BY uploaded_at DESC: every order of the rows in which uploaded_at
\* does not increase; rows with equal uploaded_at come in any order
OrderByUploadedAtDesc(rows) ==
    {s \in [1..Cardinality(rows) -> rows] :
        /\ \A i, j \in 1..Cardinality(rows) : i # j => s[i] # s[j]
        /\ \A i, j \in 1..Cardinality(rows) :
              i < j => \A a \in s[i].uploaded_at, b \in s[j].uploaded_at : a >= b}

\* LIMIT n
Limit(s, n) == SubSeq(s, 1, IF Len(s) < n THEN Len(s) ELSE n)

\* ImageRepository::find_by_folder_id_cursor: the results the query can
\* give, limit + 1 rows at most
ImageRepository_find_by_folder_id_cursor(rows, folder_id, cursor, page_limit) ==
    LET hit == {i \in rows :
                   /\ i.folder_id = folder_id
                   /\ i.deleted_at = {}
                   /\ \A c \in cursor : \E t \in i.uploaded_at : t < c}
    IN  {Limit(s, page_limit + 1) : s \in OrderByUploadedAtDesc(hit)}

\* list_images_v2 once the rows are fetched: the page, has_next and next_cursor
list_images_v2(fetched, page_limit) ==
    LET has_next == Len(fetched) > page_limit
        page == IF has_next THEN SubSeq(fetched, 1, Len(fetched) - 1) ELSE fetched
    IN  [images |-> page,
         has_next |-> has_next,
         next_cursor |-> IF has_next /\ Len(page) > 0
                         THEN {to_rfc3339(t) : t \in page[Len(page)].uploaded_at}
                         ELSE {}]

\* the image_id of each image of a page
ImageIdsOf(page) == [k \in 1..Len(page) |-> page[k].image_id]

\* GET /api/v1/folders/{id}/images/v2 with the cursor the last page gave
ListImagesV2 ==
    \E u \in UserIds :
        IF FolderRepository_find_by_id(folders, pager.folder_id, u) = {}
        THEN /\ call' = Call("list_images_v2", u, pager.folder_id, {})
             /\ UNCHANGED <<authVars, folders, images, jobs, queue, keys, tasks, pager>>
        ELSE \E fetched \in ImageRepository_find_by_folder_id_cursor(
                                images, pager.folder_id,
                                cursor_datetime(pager.cursor), limit(pager.limit)) :
                LET r == list_images_v2(fetched, limit(pager.limit))
                IN  /\ pager.has_next
                    /\ pager' = [pager EXCEPT !.cursor = r.next_cursor,
                                              !.seen = pager.seen \o ImageIdsOf(r.images),
                                              !.pages = pager.pages + 1,
                                              !.has_next = r.has_next]
                    /\ call' = Call("list_images_v2", u, pager.folder_id, {r})
                    /\ UNCHANGED <<authVars, folders, images, jobs, queue, keys, tasks>>

\* The limits a client asks for: none, one below the range, and small ones
QueryLimits == {{}, {0}, {1}, {2}}

\* The instants at which the images were uploaded, up to the server's start
Stamps == (0 - MaxStamp)..0

\* A user has a folder of images uploaded one after the other, some of them
\* at the same instant and some soft-deleted since, and starts reading it
PageInit ==
    LET folder == FolderRepository_create({}, 1, "a", 0 - MaxStamp)
        path(i) == [prefix |-> "images/", uuid |-> i]
    IN  /\ Started(MaxWorkers, {{}})
        /\ jwt_config.secret # ""
        /\ folders = {folder}
        /\ \E n \in 0..MaxPageImages :
              \E at \in [1..n -> Stamps], gone \in SUBSET (1..n) :
                  /\ \A i, j \in 1..n : i < j => at[i] <= at[j]
                  /\ images = {[image_id |-> i, folder_id |-> folder.folder_id,
                                file_path |-> path(i), uploaded_at |-> {at[i]},
                                deleted_at |-> IF i \in gone THEN {0} ELSE {}] :
                                   i \in 1..n}
                  /\ keys = {[key |-> path(i), user_id |-> 1] : i \in 1..n}
        /\ \E q \in QueryLimits :
              pager = [NoPager EXCEPT !.folder_id = folder.folder_id, !.limit = q]
        /\ jobs = {}
        /\ queue = {}
        /\ tasks = {}
        /\ call = NoCall

PageNext == ListImagesV2

PageSpec == PageInit /\ [][PageNext]_vars

\* the live images of the folder the client reads
LiveImageIds == {i.image_id : i \in {x \in images : x.folder_id = pager.folder_id
                                                    /\ x.deleted_at = {}}}

\* the images the client has been given so far
SeenImageIds == {pager.seen[k] : k \in 1..Len(pager.seen)}

(* C30: cursor pagination is complete and duplicate-free: on a folder      *)
(* whose images do not change, calling list_images_v2 first without a      *)
(* cursor and then with each returned next_cursor until has_next is false  *)
(* returns every non-deleted image of the folder exactly once, for every   *)
(* limit and also when several images share the same uploaded_at; each     *)
(* page holds at most limit images and has_next is true exactly when more  *)
(* images remain.                                                          *)
C30_PaginationComplete ==
    /\ \A j, k \in 1..Len(pager.seen) : j # k => pager.seen[j] # pager.seen[k]
    /\ SeenImageIds \subseteq LiveImageIds
    /\ pager.pages > 0 => (pager.has_next <=> SeenImageIds # LiveImageIds)
    /\ call.op = "list_images_v2" =>
          \A r \in call.val : Len(r.images) <= limit(pager.limit)

====
